---- MODULE Spec2Model ----
(***************************************************************************)
(* Model of the schedule-application bookkeeping of SCHEDULEPOSTER:        *)
(* src/utils/application_manager.py (class ApplicationManager).            *)
(*                                                                         *)
(* Python dicts keep insertion order, so a dict is modelled as a sequence  *)
(* of [k, v] entries.  Timestamps are integers (one unit = one hour); the  *)
(* ISO-8601 string isoformat() writes is the record [iso |-> t].           *)
(***************************************************************************)
EXTENDS Integers, Sequences, FiniteSets, TLC

\* ---- bounds of the model ------------------------------------------------
MaxApps == 3        \* applications stored over all sessions
MaxTime == 2        \* days after which the clock stops advancing

\* ---- units ---------------------------------------------------------------
HoursPerDay == 24   \* timedelta(days=1) in hours

\* ---- input domains ------------------------------------------------------
MsgIds == {"m1", "m2"}
UserIds == {1, 2}
UserNames == {"kim"}
Infos == {""}
ChannelIds == {7}
DateLists == {<<"2024-07-12", "2024-07-10">>,
              <<"2024-07-10", "2024-07-12", "2024-07-12">>}
DeadlineDays == {1}
RetentionDays == {1}
\* the session-lifecycle specification draws its replies from one user and
\* one date list; the summary specification uses the full sets above
LifecycleUsers == {1}
LifecycleDates == {<<"2024-07-10">>}

\* ---- error messages returned by the manager -----------------------------
UnknownSession == "UnknownSession"
DeadlinePassed == "DeadlinePassed"
DuplicateSubmission == "DuplicateSubmission"

VARIABLES
    applications,       \* self.applications: message_id -> session
    user_applications,  \* self.user_applications: str(user_id) -> entry
    disk,               \* the JSON document in data_file
    now,                \* the wall clock read by datetime.now(tz)
    ret,                \* the last call: its name, arguments and return value
    schedule_message_ids,   \* bot.schedule_message_ids: ids of the announcements
    recorded,               \* the events given to analytics.record_application
    reply,                  \* what the bot answered to the last message
    notification_tasks,     \* self.notification_tasks: name -> state of the watch
    sent,                   \* what the last notification run sent, and to whom
    wake,                   \* name of a watch -> the time its sleep ends
    inbox,                  \* history: the notifications that reached someone
    analytics,              \* Analytics: analytics_data and the file it is saved to
    settings,               \* Settings: scheduled_channels, send_logs
    scheduler               \* MessageScheduler: its jobs, whether it is running

vars == <<applications, user_applications, disk, now, ret,
          schedule_message_ids, recorded, reply, notification_tasks, sent,
          wake, inbox, analytics, settings, scheduler>>

\* the statistics, the configuration and the posting jobs
host == <<analytics, settings, scheduler>>

\* the timing of the watches and the history of what they delivered
timers == <<wake, inbox>>

\* the bot and the notifier, which no call on the manager touches
outside == <<schedule_message_ids, recorded, reply, notification_tasks, sent,
             wake, inbox, analytics, settings, scheduler>>

\* ---- Python dict (insertion ordered) ------------------------------------
Keys(d) == {d[i].k : i \in 1..Len(d)}
Has(d, key) == key \in Keys(d)
Idx(d, key) == CHOOSE i \in 1..Len(d) : d[i].k = key
Get(d, key) == d[Idx(d, key)].v
Put(d, key, val) ==
    IF Has(d, key) THEN [d EXCEPT ![Idx(d, key)].v = val]
    ELSE Append(d, [k |-> key, v |-> val])
DelKeys(d, ks) == SelectSeq(d, LAMBDA e : e.k \notin ks)
EmptyDict == <<>>

\* ---- conversions --------------------------------------------------------
Digits == <<"0", "1", "2", "3", "4", "5", "6", "7", "8", "9">>
RECURSIVE str(_)
str(n) == IF n < 10 THEN Digits[n + 1] ELSE str(n \div 10) \o Digits[(n % 10) + 1]

isoformat(t) == [iso |-> t]
fromisoformat(s) == s.iso

\* ---- persistence --------------------------------------------------------
Document(apps, uapps) == [applications |-> apps, user_applications |-> uapps]

\* ---- JSON ---------------------------------------------------------------
\* A JSON text is a tagged value: an object is an ordered list of [k, v]
\* members whose keys are strings, an array a list, and there are strings
\* and numbers.  json.dump writes the registry's dicts, json.load reads
\* them back.
JStr(s) == [str |-> s]
JNum(n) == [num |-> n]
JArr(items) == [arr |-> items]
JObj(members) == [obj |-> members]

Member(json, name) == Get(json.obj, name)
HasMember(json, name) == Has(json.obj, name)

dump_dates(dates) == JArr([i \in 1..Len(dates) |-> JStr(dates[i])])
load_dates(json) == [i \in 1..Len(json.arr) |-> json.arr[i].str]

dump_application(application) ==
    JObj(<<[k |-> "user_id", v |-> JNum(application.user_id)],
           [k |-> "user_name", v |-> JStr(application.user_name)],
           [k |-> "requested_dates", v |-> dump_dates(application.requested_dates)],
           [k |-> "additional_info", v |-> JStr(application.additional_info)],
           [k |-> "applied_at", v |-> JStr(application.applied_at)]>>)

load_application(json) ==
    [user_id |-> Member(json, "user_id").num,
     user_name |-> Member(json, "user_name").str,
     requested_dates |-> load_dates(Member(json, "requested_dates")),
     additional_info |-> Member(json, "additional_info").str,
     applied_at |-> Member(json, "applied_at").str]

dump_session(session) ==
    JObj(<<[k |-> "applications",
            v |-> JArr([i \in 1..Len(session.applications) |->
                           dump_application(session.applications[i])])],
           [k |-> "deadline", v |-> JStr(session.deadline)],
           [k |-> "channel_id", v |-> JNum(session.channel_id)],
           [k |-> "created_at", v |-> JStr(session.created_at)],
           [k |-> "status", v |-> JStr(session.status)]>>
         \o IF session.closed_at = <<>> THEN <<>>
            ELSE <<[k |-> "closed_at", v |-> JStr(session.closed_at[1])]>>)

\* variant: every session read from the file is taken as active
load_session_reopened(json) ==
    [applications |-> [i \in 1..Len(Member(json, "applications").arr) |->
                          load_application(Member(json, "applications").arr[i])],
     deadline |-> Member(json, "deadline").str,
     channel_id |-> Member(json, "channel_id").num,
     created_at |-> Member(json, "created_at").str,
     status |-> "active",
     closed_at |-> IF HasMember(json, "closed_at")
                   THEN <<Member(json, "closed_at").str>> ELSE <<>>]

load_session(json) ==
    [applications |-> [i \in 1..Len(Member(json, "applications").arr) |->
                          load_application(Member(json, "applications").arr[i])],
     deadline |-> Member(json, "deadline").str,
     channel_id |-> Member(json, "channel_id").num,
     created_at |-> Member(json, "created_at").str,
     status |-> Member(json, "status").str,
     closed_at |-> IF HasMember(json, "closed_at")
                   THEN <<Member(json, "closed_at").str>> ELSE <<>>]

dump_sessions(apps) ==
    JObj([i \in 1..Len(apps) |-> [k |-> apps[i].k, v |-> dump_session(apps[i].v)]])

load_sessions(json) ==
    [i \in 1..Len(json.obj) |-> [k |-> json.obj[i].k, v |-> load_session(json.obj[i].v)]]

dump_user(entry) ==
    JObj(<<[k |-> "message_id", v |-> JStr(entry.message_id)],
           [k |-> "applied_date", v |-> JStr(entry.applied_date)]>>)

load_user(json) ==
    [message_id |-> Member(json, "message_id").str,
     applied_date |-> Member(json, "applied_date").str]

dump_users(uapps) ==
    JObj([i \in 1..Len(uapps) |-> [k |-> uapps[i].k, v |-> dump_user(uapps[i].v)]])

load_users(json) ==
    [i \in 1..Len(json.obj) |-> [k |-> json.obj[i].k, v |-> load_user(json.obj[i].v)]]

json_dump(data) ==
    JObj(<<[k |-> "applications", v |-> dump_sessions(data.applications)],
           [k |-> "user_applications", v |-> dump_users(data.user_applications)]>>)

\* a file that is not a JSON text: the write stopped after open() truncated it
TornFile == [torn |-> TRUE]

\* _load_data: a file that does not parse gives empty maps
load_data(file) ==
    IF "obj" \notin DOMAIN file THEN Document(EmptyDict, EmptyDict)
    ELSE Document(IF HasMember(file, "applications")
                  THEN load_sessions(Member(file, "applications"))
                  ELSE EmptyDict,
                  IF HasMember(file, "user_applications")
                  THEN load_users(Member(file, "user_applications"))
                  ELSE EmptyDict)

\* how a write of the file ends
Written == "written"    \* the whole document is in the file
Refused == "refused"    \* open() raised: the file is as it was
Torn == "torn"          \* json.dump raised after open() emptied the file
WriteOutcomes == {Written, Refused, Torn}

\* _save_data: rewrites the file; a failed write is logged and swallowed.
save_data(write, apps, uapps) ==
    IF write = Written THEN json_dump(Document(apps, uapps))
    ELSE IF write = Torn THEN TornFile
    ELSE disk

\* ---- summary ------------------------------------------------------------
\* variant: date_counts[date] = 1, the earlier count is not read
RECURSIVE CountDates_reset(_, _)
CountDates_reset(dates, date_counts) ==
    IF dates = <<>> THEN date_counts
    ELSE CountDates_reset(Tail(dates), Put(date_counts, Head(dates), 1))

RECURSIVE CountDates(_, _)
CountDates(dates, date_counts) ==
    IF dates = <<>> THEN date_counts
    ELSE LET date == Head(dates)
             old == IF Has(date_counts, date) THEN Get(date_counts, date) ELSE 0
         IN CountDates(Tail(dates), Put(date_counts, date, old + 1))

RECURSIVE CountApps(_, _)
CountApps(apps, date_counts) ==
    IF apps = <<>> THEN date_counts
    ELSE CountApps(Tail(apps), CountDates(Head(apps).requested_dates, date_counts))

\* variant: the popular dates are ranked by their count
PopularOf_ranked(date_counts) ==
    LET hot == SortSeq(SelectSeq(date_counts, LAMBDA e : e.v > 1),
                       LAMBDA a, b : a.v > b.v)
    IN [i \in 1..Len(hot) |-> hot[i].k]

PopularOf(date_counts) ==
    LET hot == SelectSeq(date_counts, LAMBDA e : e.v > 1)
    IN [i \in 1..Len(hot) |-> hot[i].k]

\* variant: the summary also carries the closing timestamp
Summarize_closed_at(session) ==
    LET apps == session.applications
        date_counts == CountApps(apps, EmptyDict)
    IN [total_applications |-> Len(apps),
        unique_applicants |-> Cardinality({apps[i].user_id : i \in 1..Len(apps)}),
        date_counts |-> date_counts,
        popular_dates |-> PopularOf(date_counts),
        deadline |-> session.deadline,
        closed_at |-> session.closed_at,
        applications |-> apps]

Summarize(session) ==
    LET apps == session.applications
        date_counts == CountApps(apps, EmptyDict)
    IN [total_applications |-> Len(apps),
        unique_applicants |-> Cardinality({apps[i].user_id : i \in 1..Len(apps)}),
        date_counts |-> date_counts,
        popular_dates |-> PopularOf(date_counts),
        deadline |-> session.deadline,
        applications |-> apps]

\* variant: an unknown id yields an empty summary instead of the error
get_applications_summary_empty(apps, message_id) ==
    IF ~Has(apps, message_id)
    THEN [total_applications |-> 0, unique_applicants |-> 0, date_counts |-> EmptyDict,
          popular_dates |-> <<>>, deadline |-> <<>>, applications |-> <<>>]
    ELSE Summarize(Get(apps, message_id))

get_applications_summary(apps, message_id) ==
    IF ~Has(apps, message_id) THEN [error |-> UnknownSession]
    ELSE Summarize(Get(apps, message_id))

\* variant: sessions past their deadline drop out of the listing
get_active_sessions_expiring(apps) ==
    LET act == SelectSeq(apps, LAMBDA e : /\ e.v.status = "active"
                                          /\ now <= fromisoformat(e.v.deadline))
    IN [i \in 1..Len(act) |->
           [message_id |-> act[i].k,
            channel_id |-> act[i].v.channel_id,
            created_at |-> act[i].v.created_at,
            deadline |-> act[i].v.deadline,
            summary |-> get_applications_summary(apps, act[i].k)]]

get_active_sessions(apps) ==
    LET act == SelectSeq(apps, LAMBDA e : e.v.status = "active")
    IN [i \in 1..Len(act) |->
           [message_id |-> act[i].k,
            channel_id |-> act[i].v.channel_id,
            created_at |-> act[i].v.created_at,
            deadline |-> act[i].v.deadline,
            summary |-> get_applications_summary(apps, act[i].k)]]

get_user_application(apps, uapps, user_id) ==
    IF ~Has(uapps, str(user_id)) THEN <<>>
    ELSE LET message_id == Get(uapps, str(user_id)).message_id
         IN IF ~Has(apps, message_id) THEN <<>>
            ELSE LET list == Get(apps, message_id).applications
                     hits == SelectSeq(list, LAMBDA a : a.user_id = user_id)
                 IN IF hits = <<>> THEN <<>>
                    ELSE <<[application |-> Head(hits),
                            session_info |-> Get(apps, message_id)]>>

\* what the caller of `op` receives; `again` records that the call before it
\* was the same call (same operation, same arguments)
Return(op, args, result) ==
    [op |-> op, args |-> args, result |-> result,
     again |-> (ret.op = op /\ ret.args = args)]

Rejected(error) == [success |-> FALSE, error |-> error]

\* an early return: nothing but the return value changes
reject(op, args, error) ==
    /\ ret' = Return(op, args, Rejected(error))
    /\ UNCHANGED <<applications, user_applications, disk, now>>

\* ---- the watches setup_notifications starts ------------------------------
deadline_reminder_hours == <<24, 12, 6, 1>>

reminder_task(hours) == "deadline_reminder_" \o str(hours) \o "h"

TaskNames ==
    {reminder_task(deadline_reminder_hours[i]) : i \in 1..Len(deadline_reminder_hours)}
        \cup {"daily_report", "weekly_report"}

\* ---- the rest of the bot after setup_hook --------------------------------
\* no watch has run, nothing is recorded, no channel is configured
\* where a watch is suspended: in a sleep begun at `since` that ends at
\* `until`, in the try or in the exception handler, after which it checks,
\* reports, or computes its next report time
Suspended(since, until, then, handler) ==
    [since |-> since, until |-> until, then |-> then, handler |-> handler]

first_step(name) ==
    IF name \in {"daily_report", "weekly_report"} THEN "compute" ELSE "check"

\* asyncio.create_task: the watch takes its first step at the next turn of
\* the event loop
create_task(name, t) == Suspended(t - 1, t, first_step(name), FALSE)

\* ---- the calendar: hour 0 of the clock is Monday 2024-01-01, 00:00 --------
weekday(t) == (t \div HoursPerDay) % 7         \* datetime.weekday(): Monday = 0
hour(t) == t % HoursPerDay
at_hour(t, h) == t - hour(t) + h              \* replace(hour=h, minute=0, ...)

day_of_year(t) == t \div HoursPerDay           \* 0 is the first of January

\* the month of a day of 2024
RECURSIVE month_from(_, _)
month_from(day, m) ==
    LET DaysInMonth == <<31, 29, 31, 30, 31, 30, 31, 31, 30, 31, 30, 31>>
    IN IF day < DaysInMonth[m] THEN m ELSE month_from(day - DaysInMonth[m], m + 1)

two(n) == IF n < 10 THEN "0" \o str(n) ELSE str(n)     \* %m, %H, %W: two digits

month_key(t) == "2024-" \o two(month_from(day_of_year(t), 1))  \* strftime("%Y-%m")
\* %W: weeks begin on Monday, the days before the first Monday are week 00
week_key(t) == "2024-W" \o two((day_of_year(t) + 7 - weekday(t)) \div 7)
hour_key(t) == two(hour(t))                     \* strftime("%H")
day_key(t) ==                                   \* strftime("%A")
    <<"Monday", "Tuesday", "Wednesday", "Thursday", "Friday", "Saturday",
      "Sunday">>[weekday(t) + 1]

\* ---- analytics: the counters of the applications --------------------------
\* a Python set and a Python list are told apart: json writes one of them
set_of(S) == [set |-> S]
list_of(items) == [list |-> items]

\* set.add
add(collection, x) == set_of(collection.set \cup {x})
\* len(): of a set or of a list
len(collection) ==
    IF "set" \in DOMAIN collection THEN Cardinality(collection.set)
    ELSE Len(collection.list)

\* Counter()[key] += 1: a key that is missing counts as zero
incr(counter, key) ==
    Put(counter, key, (IF Has(counter, key) THEN Get(counter, key) ELSE 0) + 1)

\* for date in requested_dates: counter[date] += 1
RECURSIVE count_all(_, _)
count_all(counter, dates) ==
    IF dates = <<>> THEN counter
    ELSE count_all(incr(counter, Head(dates)), Tail(dates))

\* self.analytics_data of a new Analytics
empty_data ==
    [monthly_stats |-> EmptyDict, user_participation |-> EmptyDict,
     popular_times |-> EmptyDict, channel_performance |-> EmptyDict,
     trends |-> EmptyDict]

\* the dict on_message hands to record_application
application_data(user_id, user_name, requested_dates, applied_at, channel_id) ==
    [user_id |-> user_id, user_name |-> user_name,
     requested_dates |-> requested_dates, applied_at |-> applied_at,
     channel_id |-> channel_id]

update_monthly_stats(data, key, event) ==
    LET stats == IF Has(data.monthly_stats, key)
                 THEN Get(data.monthly_stats, key)
                 ELSE [total_applications |-> 0, unique_users |-> set_of({}),
                       popular_dates |-> EmptyDict, application_times |-> <<>>,
                       channels |-> EmptyDict]
    IN [data EXCEPT !.monthly_stats = Put(@, key,
           [total_applications |-> stats.total_applications + 1,
            unique_users |-> add(stats.unique_users, event.user_id),
            popular_dates |-> count_all(stats.popular_dates, event.requested_dates),
            application_times |-> Append(stats.application_times, event.applied_at),
            channels |-> IF "channel_id" \in DOMAIN event
                         THEN incr(stats.channels, event.channel_id)
                         ELSE stats.channels])]

new_user(event) ==
    [total_applications |-> 0, first_application |-> event.applied_at,
     last_application |-> event.applied_at, preferred_dates |-> EmptyDict,
     application_months |-> set_of({})]

\* variant: only the first application of a user is counted
update_user_participation_once(data, event) ==
    LET user_id == str(event.user_id)
    IN IF Has(data.user_participation, user_id) THEN data
       ELSE [data EXCEPT !.user_participation = Put(@, user_id,
                [new_user(event) EXCEPT !.total_applications = 1])]

update_user_participation(data, event) ==
    LET user_id == str(event.user_id)
        user_data == IF Has(data.user_participation, user_id)
                     THEN Get(data.user_participation, user_id)
                     ELSE new_user(event)
    IN [data EXCEPT !.user_participation = Put(@, user_id,
           [total_applications |-> user_data.total_applications + 1,
            first_application |-> user_data.first_application,
            last_application |-> event.applied_at,
            preferred_dates |-> count_all(user_data.preferred_dates,
                                          event.requested_dates),
            application_months |->
                add(user_data.application_months,
                    month_key(fromisoformat(event.applied_at)))])]

update_popular_times(data, current_time) ==
    LET hourly == IF Has(data.popular_times, "hourly")
                  THEN Get(data.popular_times, "hourly") ELSE EmptyDict
        daily == IF Has(data.popular_times, "daily")
                 THEN Get(data.popular_times, "daily") ELSE EmptyDict
    IN [data EXCEPT !.popular_times =
           Put(Put(@, "hourly", incr(hourly, hour_key(current_time))),
               "daily", incr(daily, day_key(current_time)))]

update_channel_performance(data, event) ==
    IF "channel_id" \notin DOMAIN event THEN data
    ELSE LET channel_id == str(event.channel_id)
             channel_data == IF Has(data.channel_performance, channel_id)
                             THEN Get(data.channel_performance, channel_id)
                             ELSE [total_applications |-> 0,
                                   unique_users |-> set_of({}),
                                   average_participation |-> 0,
                                   last_activity |-> event.applied_at]
             users == add(channel_data.unique_users, event.user_id)
         IN [data EXCEPT !.channel_performance = Put(@, channel_id,
                [total_applications |-> channel_data.total_applications + 1,
                 unique_users |-> users,
                 average_participation |-> len(users),
                 last_activity |-> event.applied_at])]

update_trends(data, current_time, event) ==
    LET key == week_key(current_time)
        trend_data == IF Has(data.trends, key) THEN Get(data.trends, key)
                      ELSE [applications |-> 0, unique_users |-> set_of({}),
                            growth_rate |-> 0]
    IN [data EXCEPT !.trends = Put(@, key,
           [applications |-> trend_data.applications + 1,
            unique_users |-> add(trend_data.unique_users, event.user_id),
            growth_rate |-> trend_data.growth_rate])]

\* ---- analytics: the file ----------------------------------------------------
\* json.dump has no encoding for a set: it raises TypeError when it meets one
Unserializable == [raises |-> "TypeError"]

\* json.dump(self.analytics_data): a Counter is written as an object with
\* its keys as strings, a list as an array, a set raises
dump_analytics(data) ==
    LET ids(c) == IF "set" \in DOMAIN c THEN Unserializable
                  ELSE JArr([i \in 1..Len(c.list) |-> JNum(c.list[i])])
        keys(c) == IF "set" \in DOMAIN c THEN Unserializable
                   ELSE JArr([i \in 1..Len(c.list) |-> JStr(c.list[i])])
        times(l) == JArr([i \in 1..Len(l) |-> JStr(l[i])])
        counter(c) == JObj([i \in 1..Len(c) |-> [k |-> c[i].k, v |-> JNum(c[i].v)]])
        channels(c) ==
            JObj([i \in 1..Len(c) |-> [k |-> str(c[i].k), v |-> JNum(c[i].v)]])
        month(b) ==
            JObj(<<[k |-> "total_applications", v |-> JNum(b.total_applications)],
                   [k |-> "unique_users", v |-> ids(b.unique_users)],
                   [k |-> "popular_dates", v |-> counter(b.popular_dates)],
                   [k |-> "application_times", v |-> times(b.application_times)],
                   [k |-> "channels", v |-> channels(b.channels)]>>)
        user(b) ==
            JObj(<<[k |-> "total_applications", v |-> JNum(b.total_applications)],
                   [k |-> "first_application", v |-> JStr(b.first_application)],
                   [k |-> "last_application", v |-> JStr(b.last_application)],
                   [k |-> "preferred_dates", v |-> counter(b.preferred_dates)],
                   [k |-> "application_months", v |-> keys(b.application_months)]>>)
        channel(b) ==
            JObj(<<[k |-> "total_applications", v |-> JNum(b.total_applications)],
                   [k |-> "unique_users", v |-> ids(b.unique_users)],
                   [k |-> "average_participation",
                    v |-> JNum(b.average_participation)],
                   [k |-> "last_activity", v |-> JStr(b.last_activity)]>>)
        week(b) ==
            JObj(<<[k |-> "applications", v |-> JNum(b.applications)],
                   [k |-> "unique_users", v |-> ids(b.unique_users)],
                   [k |-> "growth_rate", v |-> JNum(b.growth_rate)]>>)
    IN JObj(<<[k |-> "monthly_stats",
               v |-> JObj([i \in 1..Len(data.monthly_stats) |->
                             [k |-> data.monthly_stats[i].k,
                              v |-> month(data.monthly_stats[i].v)]])],
              [k |-> "user_participation",
               v |-> JObj([i \in 1..Len(data.user_participation) |->
                             [k |-> data.user_participation[i].k,
                              v |-> user(data.user_participation[i].v)]])],
              [k |-> "popular_times",
               v |-> JObj([i \in 1..Len(data.popular_times) |->
                             [k |-> data.popular_times[i].k,
                              v |-> counter(data.popular_times[i].v)]])],
              [k |-> "channel_performance",
               v |-> JObj([i \in 1..Len(data.channel_performance) |->
                             [k |-> data.channel_performance[i].k,
                              v |-> channel(data.channel_performance[i].v)]])],
              [k |-> "trends",
               v |-> JObj([i \in 1..Len(data.trends) |->
                             [k |-> data.trends[i].k,
                              v |-> week(data.trends[i].v)]])]>>)

\* does the encoder raise somewhere in the document
RECURSIVE Raises(_)
Raises(json) ==
    IF "raises" \in DOMAIN json THEN TRUE
    ELSE IF "arr" \in DOMAIN json
    THEN \E i \in 1..Len(json.arr) : Raises(json.arr[i])
    ELSE IF "obj" \in DOMAIN json
    THEN \E i \in 1..Len(json.obj) : Raises(json.obj[i].v)
    ELSE FALSE

\* Analytics._save_data: open(data_file, 'w') empties the file, json.dump
\* writes into it; the TypeError is logged and swallowed, the file keeps the
\* text written before it
analytics_save_data(data) ==
    IF Raises(dump_analytics(data)) THEN TornFile ELSE dump_analytics(data)

\* json.load: an array is read as a list, an object as a dict
load_analytics(json) ==
    LET ids(a) == list_of([i \in 1..Len(a.arr) |-> a.arr[i].num])
        keys(a) == list_of([i \in 1..Len(a.arr) |-> a.arr[i].str])
        counter(o) == [i \in 1..Len(o.obj) |-> [k |-> o.obj[i].k, v |-> o.obj[i].v.num]]
        month(o) ==
            [total_applications |-> Member(o, "total_applications").num,
             unique_users |-> ids(Member(o, "unique_users")),
             popular_dates |-> counter(Member(o, "popular_dates")),
             application_times |-> load_dates(Member(o, "application_times")),
             channels |-> counter(Member(o, "channels"))]
        user(o) ==
            [total_applications |-> Member(o, "total_applications").num,
             first_application |-> Member(o, "first_application").str,
             last_application |-> Member(o, "last_application").str,
             preferred_dates |-> counter(Member(o, "preferred_dates")),
             application_months |-> keys(Member(o, "application_months"))]
        channel(o) ==
            [total_applications |-> Member(o, "total_applications").num,
             unique_users |-> ids(Member(o, "unique_users")),
             average_participation |-> Member(o, "average_participation").num,
             last_activity |-> Member(o, "last_activity").str]
        week(o) ==
            [applications |-> Member(o, "applications").num,
             unique_users |-> ids(Member(o, "unique_users")),
             growth_rate |-> Member(o, "growth_rate").num]
        months == Member(json, "monthly_stats").obj
        users == Member(json, "user_participation").obj
        times == Member(json, "popular_times").obj
        channels == Member(json, "channel_performance").obj
        weeks == Member(json, "trends").obj
    IN [monthly_stats |->
            [i \in 1..Len(months) |-> [k |-> months[i].k, v |-> month(months[i].v)]],
        user_participation |->
            [i \in 1..Len(users) |-> [k |-> users[i].k, v |-> user(users[i].v)]],
        popular_times |->
            [i \in 1..Len(times) |-> [k |-> times[i].k, v |-> counter(times[i].v)]],
        channel_performance |->
            [i \in 1..Len(channels) |->
                [k |-> channels[i].k, v |-> channel(channels[i].v)]],
        trends |->
            [i \in 1..Len(weeks) |-> [k |-> weeks[i].k, v |-> week(weeks[i].v)]]]

\* Analytics._load_data: a file that does not parse gives the empty counters
analytics_load_data(file) ==
    IF "obj" \notin DOMAIN file THEN empty_data ELSE load_analytics(file)

\* Analytics.__init__ over the file of an earlier run
Analytics(file) == [analytics_data |-> analytics_load_data(file), file |-> file]

\* record_application: the five updates, then _save_data
record_application(statistics, current_time, event) ==
    LET data == update_trends(
                    update_channel_performance(
                        update_popular_times(
                            update_user_participation(
                                update_monthly_stats(statistics.analytics_data,
                                                     month_key(current_time), event),
                                event),
                            current_time),
                        event),
                    current_time, event)
    IN [analytics_data |-> data, file |-> analytics_save_data(data)]

\* cleanup_old_data: strptime gives a datetime without a zone, cutoff_date
\* has one, so the first comparison raises TypeError; nothing has been
\* removed by then, and nothing is when there is no bucket at all
cleanup_old_data(statistics, months_to_keep) ==
    [statistics |-> statistics,
     raised |-> IF statistics.analytics_data.monthly_stats # EmptyDict
                   \/ statistics.analytics_data.trends # EmptyDict
                THEN <<"TypeError">> ELSE <<>>]

\* ---- the configuration and the posting jobs made from it ------------------
Messages == {"notice", "notice2"}       \* message templates
default_message == "notice"             \* settings.default_message

\* config.json as it is loaded: one channel with its own message
ConfiguredChannels == <<[channel_id |-> 7, message |-> "notice"]>>

job_id(channel_id) == "monthly_message_" \o str(channel_id)

\* add_job(args=[channel_id, message_template]): the job keeps both values
setup_job(channel_config) ==
    [channel_id |-> channel_config.channel_id,
     message_template |-> channel_config.message]

\* _setup_scheduled_jobs: one monthly job per configured channel
RECURSIVE setup_scheduled_jobs(_, _)
setup_scheduled_jobs(jobs, scheduled_channels) ==
    IF scheduled_channels = <<>> THEN jobs
    ELSE setup_scheduled_jobs(
             Put(jobs, job_id(Head(scheduled_channels).channel_id),
                 setup_job(Head(scheduled_channels))),
             Tail(scheduled_channels))

\* no analytics file yet: __init__ writes the empty counters
InitConfig ==
    /\ analytics = [analytics_data |-> empty_data,
                    file |-> analytics_save_data(empty_data)]
    /\ settings = [scheduled_channels |-> ConfiguredChannels, send_logs |-> <<>>,
                   config_file |-> ConfiguredChannels]
    /\ scheduler = [jobs |-> setup_scheduled_jobs(EmptyDict, ConfiguredChannels),
                    running |-> TRUE]

InitHost ==
    /\ wake = [name \in TaskNames |-> create_task(name, 0)]
    /\ inbox = {}
    /\ InitConfig

\* ---- initial state: no data file, __init__ writes an empty document; ------
\* ---- setup_hook has started the watches, nothing is posted or sent yet ----
Init ==
    /\ applications = EmptyDict
    /\ user_applications = EmptyDict
    /\ disk = json_dump(Document(EmptyDict, EmptyDict))
    /\ now = 0
    /\ ret = [op |-> "__init__", args |-> <<>>, result |-> <<>>, again |-> FALSE]
    /\ schedule_message_ids = {}
    /\ recorded = 0
    /\ reply = <<>>
    /\ notification_tasks = [name \in TaskNames |-> "sleeping"]
    /\ sent = <<>>
    /\ InitHost

\* ---- create_application_session ----------------------------------------
new_session(channel_id, deadline_days) ==
    [applications |-> <<>>,
     deadline |-> isoformat(now + deadline_days * HoursPerDay),
     channel_id |-> channel_id,
     created_at |-> isoformat(now),
     status |-> "active",
     closed_at |-> <<>>]

\* variant: setdefault, a session already stored under the id is kept
create_application_session_keep(message_id, channel_id, deadline_days, write) ==
    LET apps1 == IF Has(applications, message_id) THEN applications
                 ELSE Put(applications, message_id, new_session(channel_id, deadline_days))
    IN /\ applications' = apps1
       /\ disk' = save_data(write, apps1, user_applications)
       /\ ret' = Return("create_application_session",
                        <<message_id, channel_id, deadline_days>>, <<>>)
       /\ UNCHANGED <<user_applications, now>>

create_application_session(message_id, channel_id, deadline_days, write) ==
    LET apps1 == Put(applications, message_id, new_session(channel_id, deadline_days))
    IN /\ applications' = apps1
       /\ disk' = save_data(write, apps1, user_applications)
       /\ ret' = Return("create_application_session",
                        <<message_id, channel_id, deadline_days>>, <<>>)
       /\ UNCHANGED <<user_applications, now>>

\* ---- add_application ----------------------------------------------------
\* variant: the deadline instant itself already counts as late
deadline_passed_at(session) == now >= fromisoformat(session.deadline)

deadline_passed(session) == now > fromisoformat(session.deadline)

already_applied(uapps, message_id, user_id) ==
    /\ Has(uapps, str(user_id))
    /\ Get(uapps, str(user_id)).message_id = message_id

new_application(user_id, user_name, requested_dates, additional_info) ==
    [user_id |-> user_id,
     user_name |-> user_name,
     requested_dates |-> requested_dates,
     additional_info |-> additional_info,
     applied_at |-> isoformat(now)]

\* variant: the new application is put at the head of the list
append_application_front(session, application) ==
    [session EXCEPT !.applications = <<application>> \o @]

append_application(session, application) ==
    [session EXCEPT !.applications = Append(@, application)]

record_user(uapps, message_id, user_id, application) ==
    Put(uapps, str(user_id),
        [message_id |-> message_id, applied_date |-> application.applied_at])

add_application(message_id, user_id, user_name, requested_dates, additional_info, write) ==
    LET args == <<message_id, user_id, user_name, requested_dates, additional_info>>
    IN IF ~Has(applications, message_id)
       THEN reject("add_application", args, UnknownSession)
       ELSE IF deadline_passed(Get(applications, message_id))
       THEN reject("add_application", args, DeadlinePassed)
       ELSE IF already_applied(user_applications, message_id, user_id)
       THEN reject("add_application", args, DuplicateSubmission)
       ELSE LET application == new_application(user_id, user_name,
                                               requested_dates, additional_info)
                apps1 == Put(applications, message_id,
                             append_application(Get(applications, message_id), application))
                uapps1 == record_user(user_applications, message_id, user_id, application)
            IN /\ applications' = apps1
               /\ user_applications' = uapps1
               /\ disk' = save_data(write, apps1, uapps1)
               /\ ret' = Return("add_application", args,
                                [success |-> TRUE,
                                 application |-> application,
                                 total_applications |->
                                     Len(Get(apps1, message_id).applications)])
               /\ UNCHANGED now

\* ---- close_application_session -----------------------------------------
mark_closed(session) ==
    [session EXCEPT !.status = "closed", !.closed_at = <<isoformat(now)>>]

close_application_session(message_id, write) ==
    IF ~Has(applications, message_id)
    THEN reject("close_application_session", <<message_id>>, UnknownSession)
    ELSE LET apps1 == Put(applications, message_id,
                          mark_closed(Get(applications, message_id)))
         IN /\ applications' = apps1
            /\ disk' = save_data(write, apps1, user_applications)
            /\ ret' = Return("close_application_session", <<message_id>>,
                             [success |-> TRUE,
                              summary |-> get_applications_summary(apps1, message_id)])
            /\ UNCHANGED <<user_applications, now>>

\* ---- cleanup_old_sessions ----------------------------------------------
\* variant: a session created exactly at the cutoff is removed too
old_sessions_at_cutoff(apps, days) ==
    LET cutoff_date == now - days * HoursPerDay
    IN {apps[i].k : i \in {j \in 1..Len(apps) :
                              fromisoformat(apps[j].v.created_at) <= cutoff_date}}

old_sessions(apps, days) ==
    LET cutoff_date == now - days * HoursPerDay
    IN {apps[i].k : i \in {j \in 1..Len(apps) :
                              fromisoformat(apps[j].v.created_at) < cutoff_date}}

\* variant: the entries of the users are left as they are
users_of_none(uapps, to_remove) == {}

\* the users whose entry names a removed session
users_of(uapps, to_remove) ==
    {uapps[i].k : i \in {j \in 1..Len(uapps) : uapps[j].v.message_id \in to_remove}}

\* variant: the count is logged even when nothing was removed
cleanup_log_always(to_remove) == <<Cardinality(to_remove)>>

\* the count of removed sessions goes to the log, if any was removed
cleanup_log(to_remove) ==
    IF to_remove # {} THEN <<Cardinality(to_remove)>> ELSE <<>>

\* variant: the file is rewritten only if a user entry was removed
cleanup_old_sessions_users(days, write) ==
    LET to_remove == old_sessions(applications, days)
        users_to_remove == users_of(user_applications, to_remove)
        apps1 == DelKeys(applications, to_remove)
        uapps1 == DelKeys(user_applications, users_to_remove)
    IN /\ applications' = apps1
       /\ user_applications' = uapps1
       /\ disk' = IF users_to_remove # {} THEN save_data(write, apps1, uapps1) ELSE disk
       /\ ret' = Return("cleanup_old_sessions", <<days>>, <<>>)
                    @@ [logged |-> cleanup_log(to_remove)]
       /\ UNCHANGED now

cleanup_old_sessions(days, write) ==
    LET to_remove == old_sessions(applications, days)
        apps1 == DelKeys(applications, to_remove)
        uapps1 == DelKeys(user_applications, users_of(user_applications, to_remove))
    IN /\ applications' = apps1
       /\ user_applications' = uapps1
       /\ disk' = IF to_remove # {} THEN save_data(write, apps1, uapps1) ELSE disk
       /\ ret' = Return("cleanup_old_sessions", <<days>>, <<>>)
                    @@ [logged |-> cleanup_log(to_remove)]
       /\ UNCHANGED now

\* ---- the clock advances by a day ----------------------------------------
Tick ==
    /\ now < MaxTime * HoursPerDay
    /\ now' = now + HoursPerDay
    /\ UNCHANGED <<applications, user_applications, disk, ret>>
    /\ UNCHANGED outside

\* ---- calls made on the manager -----------------------------------------
RECURSIVE TotalApps(_)
TotalApps(apps) ==
    IF apps = <<>> THEN 0
    ELSE Len(Head(apps).v.applications) + TotalApps(Tail(apps))

CallCreate ==
    \E m \in MsgIds, c \in ChannelIds, d \in DeadlineDays :
        /\ create_application_session(m, c, d, Written)
        /\ UNCHANGED outside

CallAdd(Users, Lists) ==
    \E m \in MsgIds, u \in Users, n \in UserNames, ds \in Lists, info \in Infos :
        /\ add_application(m, u, n, ds, info, Written)
        /\ TotalApps(applications') <= MaxApps
        /\ UNCHANGED outside

CallClose ==
    \E m \in MsgIds :
        /\ close_application_session(m, Written)
        /\ UNCHANGED outside

CallCleanup ==
    \E days \in RetentionDays :
        /\ cleanup_old_sessions(days, Written)
        /\ UNCHANGED outside

\* a new ApplicationManager on the same data file
Restart ==
    LET data == load_data(disk)
    IN /\ applications' = data.applications
       /\ user_applications' = data.user_applications
       /\ ret' = Return("__init__", <<>>, <<>>)
       /\ UNCHANGED <<disk, now>>
       /\ UNCHANGED outside

\* the session lifecycle: every operation, the clock running
Next ==
    \/ CallCreate
    \/ CallAdd(LifecycleUsers, LifecycleDates)
    \/ CallClose
    \/ CallCleanup
    \/ Tick

Spec == Init /\ [][Next]_vars

\* the session lifecycle, the manager being started again at any point
NextRestart ==
    \/ Next
    \/ Restart

SpecRestart == Init /\ [][NextRestart]_vars

\* collecting applications: every user and date list, within one clock tick
NextSummary ==
    \/ CallCreate
    \/ CallAdd(UserIds, DateLists)

SpecSummary == Init /\ [][NextSummary]_vars

\* ---- the store: writes that fail ----------------------------------------
StoreCreate ==
    \E m \in MsgIds, c \in ChannelIds, d \in DeadlineDays, write \in WriteOutcomes :
        /\ create_application_session(m, c, d, write)
        /\ UNCHANGED outside

StoreAdd ==
    \E m \in MsgIds, u \in LifecycleUsers, n \in UserNames,
       ds \in LifecycleDates, info \in Infos, write \in WriteOutcomes :
        /\ add_application(m, u, n, ds, info, write)
        /\ TotalApps(applications') <= MaxApps
        /\ UNCHANGED outside

StoreClose ==
    \E m \in MsgIds, write \in WriteOutcomes :
        /\ close_application_session(m, write)
        /\ UNCHANGED outside

NextStore ==
    \/ StoreCreate
    \/ StoreAdd
    \/ StoreClose
    \/ Restart

SpecStore == Init /\ [][NextStore]_vars

\* ---- the bot: announcements and the replies to them ----------------------
MaxReplies == 3     \* replies to announcements handled in one run

AnnouncementIds == {1, 2}       \* sent_message.id
BotUser == [id |-> 0, name |-> "bot"]
Authors == {[id |-> 1, name |-> "kim"], [id |-> 2, name |-> "lee"], BotUser}
Contents == {<<"7", "/", "1">>, <<" ", "7", "/", "2", " ">>}    \* message.content
Deliveries == {"sent", "no_channel", "failed"}

Completed == "completed"        \* the text of the reply at discord_bot.py:125

\* str.strip: the blanks at both ends are dropped
RECURSIVE lstrip(_)
lstrip(text) == IF text # <<>> /\ Head(text) = " " THEN lstrip(Tail(text)) ELSE text

RECURSIVE rstrip(_)
rstrip(text) ==
    IF text # <<>> /\ text[Len(text)] = " "
    THEN rstrip(SubSeq(text, 1, Len(text) - 1)) ELSE text

strip(text) == rstrip(lstrip(text))

\* the reply to the author: the return value of add_application is not read
confirmation(result, delivered) ==
    IF delivered THEN <<Completed>> ELSE <<>>

\* on_message: a reply to an announcement is handed to the manager and to
\* analytics and is answered; any other message is left to the commands
on_message(author, channel_id, reference, content, delivered) ==
    /\ author # BotUser
    /\ IF reference \in schedule_message_ids
       THEN /\ add_application(str(reference), author.id, author.name,
                               <<strip(content)>>, "", Written)
            /\ analytics' = record_application(analytics, now,
                                application_data(author.id, author.name,
                                                 <<strip(content)>>,
                                                 isoformat(now), channel_id))
            /\ recorded' = recorded + 1
            /\ reply' = confirmation(ret'.result, delivered)
       ELSE /\ reply' = <<>>
            /\ UNCHANGED <<applications, user_applications, disk, now, ret,
                           recorded, analytics>>
    /\ UNCHANGED <<schedule_message_ids, notification_tasks, sent>>
    /\ UNCHANGED <<timers, settings, scheduler>>

\* ---- the notifier: reminders, reports and alerts --------------------------
MaxHour == 2        \* hours after which the notifier's clock stops

admin_ids == <<11, 12>>                     \* settings.admin_ids
low_participation_threshold == 3
high_conflict_threshold == 3

Admins == {admin_ids[i] : i \in 1..Len(admin_ids)}
DmOutcomes == {"sent", "no_user", "failed"}     \* get_user gives None, send raises

\* what Discord does during one run: to a post in the channel, to each DM
DmResults == [Admins -> DmOutcomes]
NoDm == [admin \in Admins |-> "sent"]      \* no DM is tried when the post fails
Environments ==
    [channel : {"sent"}, dm : DmResults]
        \cup [channel : Deliveries \ {"sent"}, dm : {NoDm}]

\* variant: the try is around the loop, the first failed DM ends it
RECURSIVE notify_admins_stop(_, _, _)
notify_admins_stop(admins, about, dm) ==
    IF admins = <<>> THEN <<>>
    ELSE LET first == [admin |-> Head(admins), about |-> about,
                       result |-> dm[Head(admins)]]
         IN IF first.result = "failed" THEN <<first>>
            ELSE <<first>> \o notify_admins_stop(Tail(admins), about, dm)

\* for admin_id in admin_ids: try: get_user, send; except: log
RECURSIVE notify_admins(_, _, _)
notify_admins(admins, about, dm) ==
    IF admins = <<>> THEN <<>>
    ELSE <<[admin |-> Head(admins), about |-> about, result |-> dm[Head(admins)]]>>
             \o notify_admins(Tail(admins), about, dm)

\* _send_deadline_reminder: without the channel, or when the post raises,
\* the administrators are not notified either
send_deadline_reminder(session, hours_before, env) ==
    IF env.channel # "sent" THEN [posts |-> <<>>, dms |-> <<>>]
    ELSE [posts |-> <<session.message_id>>,
          dms |-> notify_admins(admin_ids, session.message_id, env.dm)]

\* variant: the window is [now, now + hours_before)
due_from_now(hours_before) ==
    SelectSeq(get_active_sessions(applications),
              LAMBDA session :
                  LET deadline == fromisoformat(session.deadline)
                  IN deadline < now + hours_before /\ deadline >= now)

\* variant: a session some watch has reminded is not reminded again
due_once(hours_before) ==
    SelectSeq(get_active_sessions(applications),
              LAMBDA session :
                  LET deadline == fromisoformat(session.deadline)
                  IN /\ deadline <= now + hours_before /\ deadline > now
                     /\ \A note \in inbox : note.about # session.message_id)

\* the active sessions one wake of the watch reminds
due(hours_before) ==
    SelectSeq(get_active_sessions(applications),
              LAMBDA session :
                  LET deadline == fromisoformat(session.deadline)
                  IN deadline <= now + hours_before /\ deadline > now)

RECURSIVE Concat(_)
Concat(seqs) == IF seqs = <<>> THEN <<>> ELSE Head(seqs) \o Concat(Tail(seqs))

Run(by, started, posts, dms) ==
    [by |-> by, at |-> now, started |-> started, posts |-> posts, dms |-> dms]

\* one cycle of _check_deadline_reminders(hours_before); the watch then
\* sleeps for an hour, whatever happened in the cycle
check_deadline_reminders(hours_before, env) ==
    LET sessions == due(hours_before)
        runs == [i \in 1..Len(sessions) |->
                    send_deadline_reminder(sessions[i], hours_before, env)]
    IN /\ notification_tasks[reminder_task(hours_before)] = "sleeping"
       /\ sent' = Run(reminder_task(hours_before),
                      [i \in 1..Len(sessions) |-> sessions[i].message_id],
                      Concat([i \in 1..Len(runs) |-> runs[i].posts]),
                      Concat([i \in 1..Len(runs) |-> runs[i].dms]))
       /\ UNCHANGED <<applications, user_applications, disk, now, ret>>
       /\ UNCHANGED <<schedule_message_ids, recorded, reply, notification_tasks>>
       /\ UNCHANGED host

\* _send_daily_report, run by the daily watch
send_daily_report(dm) ==
    /\ notification_tasks["daily_report"] = "sleeping"
    /\ sent' = Run("daily_report", <<>>, <<>>,
                   IF get_active_sessions(applications) = <<>> THEN <<>>
                   ELSE notify_admins(admin_ids, "daily_report", dm))
    /\ UNCHANGED <<applications, user_applications, disk, now, ret>>
    /\ UNCHANGED <<schedule_message_ids, recorded, reply, notification_tasks>>
    /\ UNCHANGED host

\* _send_weekly_report, run by the weekly watch
send_weekly_report(dm) ==
    /\ notification_tasks["weekly_report"] = "sleeping"
    /\ sent' = Run("weekly_report", <<>>, <<>>,
                   notify_admins(admin_ids, "weekly_report", dm))
    /\ UNCHANGED <<applications, user_applications, disk, now, ret>>
    /\ UNCHANGED <<schedule_message_ids, recorded, reply, notification_tasks>>
    /\ UNCHANGED host

send_low_participation_alert(session, dm) ==
    /\ sent' = Run("low_participation_alert", <<>>, <<>>,
                   IF session.summary.total_applications < low_participation_threshold
                   THEN notify_admins(admin_ids, session.message_id, dm)
                   ELSE <<>>)
    /\ UNCHANGED <<applications, user_applications, disk, now, ret>>
    /\ UNCHANGED <<schedule_message_ids, recorded, reply, notification_tasks>>
    /\ UNCHANGED host

send_high_conflict_alert(session, dm) ==
    /\ sent' = Run("high_conflict_alert", <<>>, <<>>,
                   IF Len(session.summary.popular_dates) >= high_conflict_threshold
                   THEN notify_admins(admin_ids, session.message_id, dm)
                   ELSE <<>>)
    /\ UNCHANGED <<applications, user_applications, disk, now, ret>>
    /\ UNCHANGED <<schedule_message_ids, recorded, reply, notification_tasks>>
    /\ UNCHANGED host

\* an hour passes
Hour ==
    /\ now < MaxHour
    /\ now' = now + 1
    /\ UNCHANGED <<applications, user_applications, disk, ret>>
    /\ UNCHANGED outside

\* the registry the notifier finds: sessions written by earlier calls, each
\* created a day before its deadline; "m1" is closed, or active and empty
\* or with two applications; "m2", if there is one, is active and empty
NotifierDeadlines == {1, 7, 13, 25}
NotifierDates == <<"2024-07-10", "2024-07-11", "2024-07-12">>
Applicants == {<<>>, <<[id |-> 1, name |-> "kim"], [id |-> 2, name |-> "lee"]>>}

stored_session(channel_id, deadline, status, applicants) ==
    LET created == deadline - HoursPerDay
    IN [applications |->
            [i \in 1..Len(applicants) |->
                [user_id |-> applicants[i].id,
                 user_name |-> applicants[i].name,
                 requested_dates |-> NotifierDates,
                 additional_info |-> "",
                 applied_at |-> isoformat(created)]],
        deadline |-> isoformat(deadline),
        channel_id |-> channel_id,
        created_at |-> isoformat(created),
        status |-> status,
        closed_at |-> IF status = "closed" THEN <<isoformat(created)>> ELSE <<>>]

LaterDeadlines == {1, 25}

StoredSessions ==
    {stored_session(c, d, "active", a) :
        c \in ChannelIds, d \in NotifierDeadlines, a \in Applicants}
    \cup {stored_session(c, d, "closed", <<>>) :
            c \in ChannelIds, d \in NotifierDeadlines}

LaterSessions ==
    {stored_session(c, d, "active", <<>>) : c \in ChannelIds, d \in LaterDeadlines}

StoredRegistries ==
    {<<[k |-> "m1", v |-> s]>> : s \in StoredSessions}
    \cup {<<[k |-> "m1", v |-> s1], [k |-> "m2", v |-> s2]>> :
            s1 \in StoredSessions, s2 \in LaterSessions}

\* the user index the add_application calls have left
RECURSIVE index_session(_, _, _)
index_session(uapps, message_id, apps) ==
    IF apps = <<>> THEN uapps
    ELSE index_session(record_user(uapps, message_id, Head(apps).user_id, Head(apps)),
                       message_id, Tail(apps))

RECURSIVE index_registry(_, _)
index_registry(uapps, apps) ==
    IF apps = <<>> THEN uapps
    ELSE index_registry(index_session(uapps, Head(apps).k, Head(apps).v.applications),
                        Tail(apps))

InitNotifier ==
    /\ applications \in StoredRegistries
    /\ user_applications = index_registry(EmptyDict, applications)
    /\ disk = json_dump(Document(applications, user_applications))
    /\ now = 0
    /\ ret = [op |-> "__init__", args |-> <<>>, result |-> <<>>, again |-> FALSE]
    /\ schedule_message_ids = {}
    /\ recorded = 0
    /\ reply = <<>>
    /\ notification_tasks = [name \in TaskNames |-> "sleeping"]
    /\ sent = <<>>
    /\ InitHost

\* the notifier at work, the times at which its watches wake left open
WatchWakes ==
    \E i \in 1..Len(deadline_reminder_hours), env \in Environments :
        /\ check_deadline_reminders(deadline_reminder_hours[i], env)
        /\ UNCHANGED timers

DailyReport ==
    \E dm \in DmResults : send_daily_report(dm) /\ UNCHANGED timers

WeeklyReport ==
    \E dm \in DmResults : send_weekly_report(dm) /\ UNCHANGED timers

LowParticipationAlert ==
    \E i \in 1..Len(get_active_sessions(applications)), dm \in DmResults :
        /\ send_low_participation_alert(get_active_sessions(applications)[i], dm)
        /\ UNCHANGED timers

HighConflictAlert ==
    \E i \in 1..Len(get_active_sessions(applications)), dm \in DmResults :
        /\ send_high_conflict_alert(get_active_sessions(applications)[i], dm)
        /\ UNCHANGED timers

NextNotifier ==
    \/ WatchWakes
    \/ DailyReport
    \/ WeeklyReport
    \/ LowParticipationAlert
    \/ HighConflictAlert
    \/ Hour

SpecNotifier == InitNotifier /\ [][NextNotifier]_vars

\* ---- the watches in time, and the end of the bot ---------------------------
daily_report_time == 18
weekly_report_time == 9

\* _daily_report_scheduler: today at 18:00, or tomorrow once 18:00 is reached
next_daily_report(current_time) ==
    LET next_report == at_hour(current_time, daily_report_time)
    IN IF hour(current_time) >= daily_report_time
       THEN next_report + HoursPerDay ELSE next_report

\* _weekly_report_scheduler: 09:00 of the day days_ahead from now, where
\* days_ahead is 7 - weekday(), and 0 on a Monday
next_weekly_report(current_time) ==
    LET days == 7 - weekday(current_time)
        days_ahead == IF days = 7 THEN 0 ELSE days
    IN at_hour(current_time + days_ahead * HoursPerDay, weekly_report_time)

\* asyncio.sleep(seconds): the watch is suspended until now + seconds
sleep(name, hours, then, handler) ==
    wake' = [wake EXCEPT ![name] = Suspended(now, now + hours, then, handler)]

\* variant: the handler logs and the coroutine returns
handler_returns(name, hours, then) ==
    wake' = [wake EXCEPT ![name] = Suspended(now, now, "finished", TRUE)]

\* except Exception: log, sleep, and back to the top of the loop
handler_sleeps(name, hours, then) == sleep(name, hours, then, TRUE)

\* the sleep of a watch has ended and nothing has cancelled it
runnable(name) ==
    /\ notification_tasks[name] = "sleeping"
    /\ wake[name].then # "finished"
    /\ wake[name].until <= now

\* the direct messages of a run that reached an administrator
Received(run) ==
    {[to |-> run.dms[i].admin, about |-> run.dms[i].about,
      by |-> run.by, at |-> run.at] :
        i \in {j \in 1..Len(run.dms) : run.dms[j].result = "sent"}}

\* a cycle in which a call raises before anything is sent: the handler logs
idle ==
    /\ UNCHANGED <<applications, user_applications, disk, now, ret>>
    /\ UNCHANGED <<schedule_message_ids, recorded, reply, notification_tasks, sent>>
    /\ UNCHANGED host

Reliable == [channel |-> "sent", dm |-> NoDm]

\* one turn of the loop of _check_deadline_reminders: the check, then an hour
\* of sleep, in the try or in the handler
deadline_watch(hours_before, error) ==
    /\ runnable(reminder_task(hours_before))
    /\ IF error
       THEN /\ idle /\ UNCHANGED inbox
            /\ handler_sleeps(reminder_task(hours_before), 1, "check")
       ELSE /\ check_deadline_reminders(hours_before, Reliable)
            /\ inbox' = inbox \cup Received(sent')
            /\ sleep(reminder_task(hours_before), 1, "check", FALSE)

\* _daily_report_scheduler from one await to the next: the report if the
\* sleep before it has ended, then the next report time and the sleep until
\* it; an exception leads to an hour of sleep and to the top of the loop
daily_report_scheduler(error) ==
    /\ runnable("daily_report")
    /\ IF wake["daily_report"].then = "report"
       THEN /\ send_daily_report(NoDm)
            /\ inbox' = inbox \cup Received(sent')
       ELSE idle /\ UNCHANGED inbox
    /\ IF error THEN handler_sleeps("daily_report", 1, "compute")
       ELSE sleep("daily_report", next_daily_report(now) - now, "report", FALSE)

\* _weekly_report_scheduler, likewise; its handler sleeps for a day
weekly_report_scheduler(error) ==
    /\ runnable("weekly_report")
    /\ IF wake["weekly_report"].then = "report"
       THEN /\ send_weekly_report(NoDm)
            /\ inbox' = inbox \cup Received(sent')
       ELSE idle /\ UNCHANGED inbox
    /\ IF error THEN handler_sleeps("weekly_report", HoursPerDay, "compute")
       ELSE sleep("weekly_report", next_weekly_report(now) - now, "report", FALSE)

\* NotificationSystem.shutdown: every task that is not done is cancelled;
\* the CancelledError raised in the sleep is no Exception, the watch ends
shutdown ==
    /\ notification_tasks' = [name \in TaskNames |-> "cancelled"]
    /\ UNCHANGED <<applications, user_applications, disk, now, ret>>
    /\ UNCHANGED <<schedule_message_ids, recorded, reply, sent>>
    /\ UNCHANGED <<timers, host>>

\* MessageScheduler.shutdown
scheduler_shutdown ==
    scheduler' = IF scheduler.running THEN [scheduler EXCEPT !.running = FALSE]
                 ELSE scheduler

\* ScheduledBot.close: the posting jobs are stopped and the connection is
\* closed; the notifier is not told
close ==
    /\ scheduler_shutdown
    /\ UNCHANGED <<applications, user_applications, disk, now, ret>>
    /\ UNCHANGED <<schedule_message_ids, recorded, reply, notification_tasks, sent>>
    /\ UNCHANGED <<timers, analytics, settings>>

\* the bot is started at one of these hours and watched for MaxHour hours
StartTimes == {8, 17, 41, 167}      \* Mon 08:00, Mon 17:00, Tue 17:00, Sun 23:00
WatchDeadlines == {1, 2}            \* hours from the start to the deadline

\* a sleep ends on time: before the hour is over the watch has taken its
\* turn, also when it found no time left to sleep
on_time(name) ==
    \/ notification_tasks[name] # "sleeping"
    \/ wake[name].until > now
    \/ wake[name].since = now

HourPasses(Starts) ==
    /\ \E start \in Starts : start <= now /\ now < start + MaxHour
    /\ \A name \in TaskNames : on_time(name)
    /\ now' = now + 1
    /\ UNCHANGED <<applications, user_applications, disk, ret>>
    /\ UNCHANGED outside

\* the bot has been set up at one of the times Starts; one active session
\* is stored, its deadline some of the hours Deadlines away
StartWatches(Starts, Deadlines) ==
    /\ now \in Starts
    /\ \E c \in ChannelIds, d \in Deadlines :
           applications = <<[k |-> "m1", v |-> stored_session(c, now + d, "active", <<>>)]>>
    /\ user_applications = EmptyDict
    /\ disk = json_dump(Document(applications, user_applications))
    /\ ret = [op |-> "__init__", args |-> <<>>, result |-> <<>>, again |-> FALSE]
    /\ schedule_message_ids = {}
    /\ recorded = 0
    /\ reply = <<>>
    /\ notification_tasks = [name \in TaskNames |-> "sleeping"]
    /\ sent = <<>>
    /\ inbox = {}
    /\ InitConfig

DeadlineWatch(Errors) ==
    \E i \in 1..Len(deadline_reminder_hours), error \in Errors :
        deadline_watch(deadline_reminder_hours[i], error)

DailyWatch(Errors) == \E error \in Errors : daily_report_scheduler(error)

WeeklyWatch(Errors) == \E error \in Errors : weekly_report_scheduler(error)

\* the watches when no call raises, and the two ways the host may end them
InitWatch ==
    /\ StartWatches(StartTimes, WatchDeadlines)
    /\ wake = [name \in TaskNames |-> create_task(name, now)]

NextWatch ==
    \/ DeadlineWatch({FALSE})
    \/ DailyWatch({FALSE})
    \/ WeeklyWatch({FALSE})
    \/ HourPasses(StartTimes)
    \/ shutdown
    \/ close

SpecWatch == InitWatch /\ [][NextWatch]_vars

\* ---- the watches when calls raise ------------------------------------------
\* the bot is watched for MaxHour hours from a Tuesday, 08:00; the deadline
\* of the stored session is more than a day away.  The weekly watch has
\* met an exception on Monday at 09:00 and sleeps in its handler until
\* Tuesday, 09:00; the other watches start their next turn
FaultyStart == HoursPerDay + 8
FaultyDeadline == 2 * HoursPerDay
Horizon == FaultyStart + MaxHour

ClockRuns ==
    /\ now < Horizon
    /\ \A name \in TaskNames : on_time(name)
    /\ now' = now + 1
    /\ UNCHANGED <<applications, user_applications, disk, ret>>
    /\ UNCHANGED outside

InitFaulty ==
    /\ StartWatches({FaultyStart}, {FaultyDeadline})
    /\ wake = [name \in TaskNames |->
                  IF name = "weekly_report"
                  THEN Suspended(HoursPerDay + weekly_report_time - HoursPerDay,
                                 HoursPerDay + weekly_report_time, "compute", TRUE)
                  ELSE create_task(name, now)]

NextFaulty ==
    \/ DeadlineWatch(BOOLEAN)
    \/ DailyWatch(BOOLEAN)
    \/ WeeklyWatch(BOOLEAN)
    \/ ClockRuns

\* the event loop runs every task whose sleep has ended, and time goes on
FairWatches ==
    /\ \A i \in 1..Len(deadline_reminder_hours) :
           WF_vars(\E error \in BOOLEAN :
                      deadline_watch(deadline_reminder_hours[i], error))
    /\ WF_vars(DailyWatch(BOOLEAN))
    /\ WF_vars(WeeklyWatch(BOOLEAN))
    /\ WF_vars(ClockRuns)

SpecFaulty == InitFaulty /\ [][NextFaulty]_vars /\ FairWatches

\* ---- the monthly posting job --------------------------------------------
MaxLogs == 2        \* entries in the send log after which no further job runs

max_retry == 3

\* _send_scheduled_message: the id of a delivered announcement is kept; a
\* missing channel and every exception of the send are logged, none is raised
send_scheduled_message(ids, id, delivery) ==
    IF delivery = "sent" THEN ids \cup {id} ELSE ids

log_entry(channel_id, message, status, attempt) ==
    [channel_id |-> channel_id, message |-> message, status |-> status,
     datetime |-> isoformat(now), attempt |-> attempt]

\* Settings.add_send_log: the entry is appended, then the file is written
add_send_log(send_logs, entry) == Append(send_logs, entry)

\* the try of one attempt: the send returns, 'success' is logged
log_success(send_logs, channel_id, message, attempt, delivery) ==
    add_send_log(send_logs, log_entry(channel_id, message, "success", attempt))

\* for attempt in range(1, max_retry+1): the attempt ends the run unless
\* writing the log raises; after the last one 'fail' is logged and, if that
\* write succeeds, the administrators are told.  Attempt k posts the
\* message Discord numbers id + k - 1; the first `failing` writes raise.
RECURSIVE retry(_, _, _, _, _, _, _, _)
retry(attempt, channel_id, message, ids, send_logs, id, deliveries, failing) ==
    LET posted == send_scheduled_message(ids, id + attempt - 1, deliveries[attempt])
        logged == log_success(send_logs, channel_id, message, attempt, deliveries[attempt])
    IN IF attempt > failing
       THEN [ids |-> posted, send_logs |-> logged, attempts |-> attempt,
             notified |-> FALSE]
       ELSE IF attempt = max_retry
       THEN [ids |-> posted,
             send_logs |-> add_send_log(logged,
                               log_entry(channel_id, message, "fail", attempt)
                                   @@ [error |-> "write"]),
             attempts |-> attempt,
             notified |-> attempt + 1 > failing]
       ELSE retry(attempt + 1, channel_id, message, posted, logged, id,
                  deliveries, failing)

\* _send_scheduled_message_with_retry, the function a monthly job runs
send_scheduled_message_with_retry(channel_id, message_template, id, deliveries, failing) ==
    LET run == retry(1, channel_id, message_template, schedule_message_ids,
                     settings.send_logs, id, deliveries, failing)
    IN /\ \A k \in 0..(max_retry - 1) : id + k \notin schedule_message_ids
       /\ schedule_message_ids' = run.ids
       /\ settings' = [settings EXCEPT !.send_logs = run.send_logs]
       /\ sent' = Run(job_id(channel_id), <<>>,
                      [k \in 1..run.attempts |-> deliveries[k]],
                      IF run.notified THEN notify_admins(admin_ids, channel_id, NoDm)
                      ELSE <<>>)
                  @@ [message |-> message_template]
       /\ UNCHANGED <<applications, user_applications, disk, now, ret>>
       /\ UNCHANGED <<recorded, reply, notification_tasks>>
       /\ UNCHANGED <<timers, analytics, scheduler>>

\* the day and the hour of a job have come
PostAnnouncement ==
    \E i \in 1..Len(scheduler.jobs), id \in AnnouncementIds,
       deliveries \in [1..max_retry -> Deliveries], failing \in 0..(max_retry + 1) :
        /\ scheduler.running
        /\ Len(settings.send_logs) < MaxLogs
        /\ send_scheduled_message_with_retry(
               scheduler.jobs[i].v.channel_id, scheduler.jobs[i].v.message_template,
               id, deliveries, failing)

ReplyArrives ==
    \E author \in Authors, channel_id \in ChannelIds,
       reference \in AnnouncementIds, content \in Contents,
       delivered \in BOOLEAN :
        /\ recorded < MaxReplies
        /\ on_message(author, channel_id, reference, content, delivered)

NextBot ==
    \/ PostAnnouncement
    \/ ReplyArrives

SpecBot == Init /\ [][NextBot]_vars

\* ---- the commands that change the configuration ------------------------------
CommandChannels == {7, 8}               \* channel_id given to a command
CommandMessages == {"", "notice2"}      \* message given to add_channel

Configured(scheduled_channels) ==
    {scheduled_channels[i].channel_id : i \in 1..Len(scheduled_channels)}

\* the first entry of the channel, as the for loops find it
entry_of(scheduled_channels, channel_id) ==
    CHOOSE i \in 1..Len(scheduled_channels) :
        /\ scheduled_channels[i].channel_id = channel_id
        /\ \A j \in 1..(i - 1) : scheduled_channels[j].channel_id # channel_id

\* Settings.save_config: scheduled_channels is written to config.json
save_config(scheduled_channels) ==
    [settings EXCEPT !.scheduled_channels = scheduled_channels,
                     !.config_file = scheduled_channels]

\* Settings.add_scheduled_channel: False for a channel that is configured
add_scheduled_channel(channel_id, message) ==
    IF channel_id \in Configured(settings.scheduled_channels)
    THEN [settings |-> settings, result |-> FALSE]
    ELSE [settings |->
              save_config(Append(settings.scheduled_channels,
                                 [channel_id |-> channel_id,
                                  message |-> IF message # "" THEN message
                                              ELSE default_message])),
          result |-> TRUE]

\* Settings.remove_scheduled_channel: False for a channel that is not configured
remove_scheduled_channel(channel_id) ==
    IF channel_id \notin Configured(settings.scheduled_channels)
    THEN [settings |-> settings, result |-> FALSE]
    ELSE [settings |->
              save_config(
                  LET i == entry_of(settings.scheduled_channels, channel_id)
                  IN SubSeq(settings.scheduled_channels, 1, i - 1)
                         \o SubSeq(settings.scheduled_channels, i + 1,
                                   Len(settings.scheduled_channels))),
          result |-> TRUE]

\* a command changes the settings and answers with ctx.send
command(changed, answer) ==
    /\ settings' = changed
    /\ reply' = <<answer>>
    /\ UNCHANGED <<applications, user_applications, disk, now, ret>>
    /\ UNCHANGED <<schedule_message_ids, recorded, notification_tasks, sent>>

\* !add_channel <channel_id> [message]
add_channel(channel_id, message) ==
    command(add_scheduled_channel(channel_id, message).settings,
            IF add_scheduled_channel(channel_id, message).result
            THEN "added" ELSE "already configured")

\* !remove_channel <channel_id>
remove_channel(channel_id) ==
    command(remove_scheduled_channel(channel_id).settings,
            IF remove_scheduled_channel(channel_id).result
            THEN "removed" ELSE "not configured")

\* !set_message <channel_id> <message>
set_message(channel_id, message) ==
    IF channel_id \in Configured(settings.scheduled_channels)
    THEN command(save_config(
                     [settings.scheduled_channels
                          EXCEPT ![entry_of(settings.scheduled_channels,
                                            channel_id)].message = message]),
                 "message changed")
    ELSE command(settings, "not configured")

\* an administrator gives a command; no command calls the scheduler
AddChannel ==
    \E channel_id \in CommandChannels, message \in CommandMessages :
        /\ add_channel(channel_id, message)
        /\ UNCHANGED <<timers, analytics, scheduler>>

RemoveChannel ==
    \E channel_id \in CommandChannels :
        /\ remove_channel(channel_id)
        /\ UNCHANGED <<timers, analytics, scheduler>>

SetMessage ==
    \E channel_id \in CommandChannels, message \in Messages :
        /\ set_message(channel_id, message)
        /\ UNCHANGED <<timers, analytics, scheduler>>

NextConfig ==
    \/ AddChannel
    \/ RemoveChannel
    \/ SetMessage
    \/ PostAnnouncement

SpecConfig == Init /\ [][NextConfig]_vars

\* ---- the statistics over the weeks of a year ---------------------------------
MaxRecords == 3     \* calls of record_application in one run

\* Monday 1 January 10:00, Monday 8 January 10:00, Wednesday 31 January
\* 23:00 and Thursday 1 February 00:00 (the same week, another month)
RecordTimes == {10, 7 * HoursPerDay + 10, 30 * HoursPerDay + 23, 31 * HoursPerDay}
RecordChannels == {7, 8}
RetentionMonths == {12}     \* months_to_keep

RecordApplication ==
    \E author \in Authors \ {BotUser}, channel_id \in RecordChannels,
       requested_dates \in LifecycleDates :
        LET event == application_data(author.id, author.name, requested_dates,
                                      isoformat(now), channel_id)
        IN /\ recorded < MaxRecords
           /\ analytics' = record_application(analytics, now, event)
           /\ recorded' = recorded + 1
           /\ ret' = Return("record_application", <<event>>, <<>>)
           /\ UNCHANGED <<applications, user_applications, disk, now>>
           /\ UNCHANGED <<schedule_message_ids, reply, notification_tasks, sent>>
           /\ UNCHANGED <<timers, settings, scheduler>>

CleanupOldData ==
    \E months_to_keep \in RetentionMonths :
        /\ analytics' = cleanup_old_data(analytics, months_to_keep).statistics
        /\ ret' = Return("cleanup_old_data", <<months_to_keep>>,
                         cleanup_old_data(analytics, months_to_keep).raised)
        /\ UNCHANGED <<applications, user_applications, disk, now>>
        /\ UNCHANGED <<schedule_message_ids, recorded, reply, notification_tasks, sent>>
        /\ UNCHANGED <<timers, settings, scheduler>>

\* the bot is started again: Analytics(settings) reads the file
AnalyticsRestart ==
    /\ analytics' = Analytics(analytics.file)
    /\ ret' = Return("Analytics", <<>>, <<>>)
    /\ UNCHANGED <<applications, user_applications, disk, now>>
    /\ UNCHANGED <<schedule_message_ids, recorded, reply, notification_tasks, sent>>
    /\ UNCHANGED <<timers, settings, scheduler>>

DaysPass ==
    \E t \in RecordTimes :
        /\ t > now
        /\ now' = t
        /\ UNCHANGED <<applications, user_applications, disk, ret>>
        /\ UNCHANGED outside

NextAnalytics ==
    \/ RecordApplication
    \/ CleanupOldData
    \/ DaysPass

SpecAnalytics == Init /\ [][NextAnalytics]_vars

NextReload ==
    \/ RecordApplication
    \/ AnalyticsRestart
    \/ DaysPass

SpecReload == Init /\ [][NextReload]_vars

\* ---- notation for the properties ----------------------------------------
ListOf(apps, m) == Get(apps, m).applications
StatusOf(apps, m) == Get(apps, m).status
IsAdd(r) == r.op = "add_application"
IsClose(r) == r.op = "close_application_session"
Failed(r, error) == ~r.result.success /\ r.result.error = error

\* C1: once a session is closed, an add_application call on it never
\* increases the length of its application list.
C1_ClosedSessionTakesNoApplication ==
    [][\A m \in MsgIds, u \in LifecycleUsers, n \in UserNames, ds \in LifecycleDates, info \in Infos :
          ( /\ Has(applications, m)
            /\ StatusOf(applications, m) = "closed"
            /\ add_application(m, u, n, ds, info, Written) )
          => Len(ListOf(applications', m)) <= Len(ListOf(applications, m))]_vars

\* C2: every session's application list holds at most one application per
\* user id, whatever the user did in other sessions in between.
C2_OneApplicationPerUser ==
    \A m \in Keys(applications) :
        \A i, j \in 1..Len(ListOf(applications, m)) :
            ListOf(applications, m)[i].user_id = ListOf(applications, m)[j].user_id => i = j

\* C3: add_application answers DuplicateSubmission only if the target
\* session's own application list holds an application by that user.
C3_SessionListDecidesDuplicate ==
    [][\A m \in MsgIds, u \in LifecycleUsers, n \in UserNames, ds \in LifecycleDates, info \in Infos :
          ( /\ add_application(m, u, n, ds, info, Written)
            /\ IsAdd(ret') /\ Failed(ret', DuplicateSubmission) )
          => \E i \in 1..Len(ListOf(applications, m)) :
                 ListOf(applications, m)[i].user_id = u]_vars

\* C4: add_application on an existing session at a time strictly after the
\* deadline fails with DeadlinePassed and changes neither the sessions, the
\* UserIndex nor the persisted document; at or before the deadline it is
\* not rejected as DeadlinePassed.
C4_DeadlineRule ==
    [][\A m \in MsgIds, u \in LifecycleUsers, n \in UserNames, ds \in LifecycleDates, info \in Infos :
          ( /\ Has(applications, m)
            /\ add_application(m, u, n, ds, info, Written) )
          => IF now > Get(applications, m).deadline.iso
             THEN /\ IsAdd(ret') /\ Failed(ret', DeadlinePassed)
                  /\ applications' = applications
                  /\ user_applications' = user_applications
                  /\ disk' = disk
             ELSE /\ IsAdd(ret')
                  /\ ~Failed(ret', DeadlinePassed)]_vars

\* C4 witness: a reply that arrived after the deadline was rejected.
C4_LateReplyRejected ==
    /\ IsAdd(ret) /\ Failed(ret, DeadlinePassed)
    /\ Has(applications, ret.args[1])
    /\ now > Get(applications, ret.args[1]).deadline.iso

\* C5: add_application, close_application_session and
\* get_applications_summary on an id absent from the registry return the
\* UnknownSession error and leave sessions, UserIndex and the persisted
\* document as they were.
C5_UnknownSessionNoEffect ==
    [][\A m \in MsgIds :
          ~Has(applications, m)
          => /\ get_applications_summary(applications, m) = [error |-> UnknownSession]
             /\ \A u \in LifecycleUsers, n \in UserNames, ds \in LifecycleDates, info \in Infos :
                    add_application(m, u, n, ds, info, Written)
                    => /\ IsAdd(ret') /\ Failed(ret', UnknownSession)
                       /\ applications' = applications
                       /\ user_applications' = user_applications
                       /\ disk' = disk
             /\ close_application_session(m, Written)
                => /\ IsClose(ret') /\ Failed(ret', UnknownSession)
                   /\ applications' = applications
                   /\ user_applications' = user_applications
                   /\ disk' = disk]_vars

\* C5 witness: a call named a session id that the registry does not hold.
C5_UnknownIdCalled ==
    /\ IsAdd(ret) \/ IsClose(ret)
    /\ Failed(ret, UnknownSession)
    /\ ~Has(applications, ret.args[1])
    /\ applications # EmptyDict

ActiveIds(apps) ==
    LET active_sessions == get_active_sessions(apps)
    IN {active_sessions[i].message_id : i \in 1..Len(active_sessions)}

\* C6: a session goes from active to closed only in a
\* close_application_session call on it; an active session, expired or not,
\* is listed by get_active_sessions; a late add_application leaves the
\* session active and its list as it was.
C6_NoAutoExpiry ==
    [][/\ \A m \in MsgIds :
              ( /\ Has(applications, m) /\ StatusOf(applications, m) = "active"
                /\ Has(applications', m) /\ StatusOf(applications', m) = "closed" )
              => close_application_session(m, Written)
       /\ LET listed == ActiveIds(applications')
          IN \A m \in Keys(applications') :
                 StatusOf(applications', m) = "active" <=> m \in listed
       /\ \A m \in Keys(applications), u \in LifecycleUsers, n \in UserNames,
             ds \in LifecycleDates, info \in Infos :
              ( /\ now > Get(applications, m).deadline.iso
                /\ add_application(m, u, n, ds, info, Written) )
              => /\ Get(applications', m) = Get(applications, m)
                 /\ ~ret'.result.success]_vars

\* C6 witness: a session past its deadline was never closed, is still listed
\* as active, and a late reply to it has just been rejected.
C6_ExpiredStillActive ==
    /\ IsAdd(ret) /\ Failed(ret, DeadlinePassed)
    /\ Has(applications, ret.args[1])
    /\ now > Get(applications, ret.args[1]).deadline.iso
    /\ StatusOf(applications, ret.args[1]) = "active"
    /\ ret.args[1] \in ActiveIds(applications)

\* C7: a close_application_session call that directly follows a successful
\* close of the same session succeeds, returns the same summary, and leaves
\* the application list unaltered and the status closed.
C7_CloseTwice ==
    [][\A m \in MsgIds :
          ( /\ IsClose(ret) /\ ret.args = <<m>> /\ ret.result.success
            /\ close_application_session(m, Written) )
          => /\ IsClose(ret') /\ ret'.result.success
             /\ ret'.result.summary = ret.result.summary
             /\ Has(applications', m)
             /\ ListOf(applications', m) = ListOf(applications, m)
             /\ ret'.result.summary.applications = ListOf(applications, m)
             /\ StatusOf(applications', m) = "closed"]_vars

\* C7 witness: a session holding an application was closed twice in a row,
\* the second time later than the first reply.
C7_ClosedAgain ==
    /\ IsClose(ret) /\ ret.again /\ ret.result.success
    /\ ret.result.summary.total_applications >= 1
    /\ Get(applications, ret.args[1]).closed_at = <<isoformat(now)>>
    /\ now > ret.result.summary.applications[1].applied_at.iso

\* ---- the requested dates of a list, counted directly --------------------
DatePositions(list) ==
    UNION {{<<i, j>> : j \in 1..Len(list[i].requested_dates)} : i \in 1..Len(list)}
Occurrences(list, date) ==
    Cardinality({p \in DatePositions(list) : list[p[1]].requested_dates[p[2]] = date})
DatesOf(list) == {list[p[1]].requested_dates[p[2]] : p \in DatePositions(list)}
Before(p, q) == p[1] < q[1] \/ (p[1] = q[1] /\ p[2] < q[2])
FirstPosition(list, date) ==
    CHOOSE p \in DatePositions(list) :
        /\ list[p[1]].requested_dates[p[2]] = date
        /\ \A q \in DatePositions(list) :
               list[q[1]].requested_dates[q[2]] = date => (q = p \/ Before(p, q))
CountOf(date_counts, date) ==
    LET hit == {i \in 1..Len(date_counts) : date_counts[i].k = date}
    IN IF hit = {} THEN 0 ELSE date_counts[CHOOSE i \in hit : TRUE].v

\* C8: for every session, the summary reports total_applications = length
\* of the list, unique_applicants = number of distinct user ids in it, and
\* date_counts = one entry per requested date string holding the number of
\* times the string occurs over all applications (repeats inside one
\* submission included).
C8_SummaryCounts ==
    \A m \in Keys(applications) :
        LET list == ListOf(applications, m)
            summary == get_applications_summary(applications, m)
            dc == summary.date_counts
        IN /\ summary.total_applications = Len(list)
           /\ summary.unique_applicants =
                  Cardinality({i \in 1..Len(list) :
                                  \A j \in 1..(i - 1) : list[j].user_id # list[i].user_id})
           /\ \A i, j \in 1..Len(dc) : dc[i].k = dc[j].k => i = j
           /\ {dc[i].k : i \in 1..Len(dc)} = DatesOf(list)
           /\ \A i \in 1..Len(dc) : dc[i].v = Occurrences(list, dc[i].k)
           /\ summary.applications = list

\* C8 witness: two users applied to a session, one of them naming a date
\* twice in one submission: total 2, unique 2, that date counted 3 times.
C8_TwoApplicantsCounted ==
    \E m \in Keys(applications) :
        LET summary == get_applications_summary(applications, m)
        IN /\ summary.total_applications = 2
           /\ summary.unique_applicants = 2
           /\ CountOf(summary.date_counts, "2024-07-12") = 3
           /\ CountOf(summary.date_counts, "2024-07-10") = 2

\* C9: popular_dates holds exactly the date strings counted more than
\* once, each once, in the order of their first occurrence in the session's
\* applications (arrival order, then order inside a submission).
C9_PopularDates ==
    \A m \in Keys(applications) :
        LET list == ListOf(applications, m)
            summary == get_applications_summary(applications, m)
            pop == summary.popular_dates
        IN /\ \A i, j \in 1..Len(pop) : pop[i] = pop[j] => i = j
           /\ {pop[i] : i \in 1..Len(pop)} =
                  {d \in DatesOf(list) : CountOf(summary.date_counts, d) > 1}
           /\ \A i, j \in 1..Len(pop) :
                  i < j => Before(FirstPosition(list, pop[i]), FirstPosition(list, pop[j]))

\* C9 witness: the first-seen date comes first in popular_dates although the
\* date after it has the higher count.
C9_FirstSeenNotRanked ==
    \E m \in Keys(applications) :
        LET summary == get_applications_summary(applications, m)
        IN /\ Len(summary.popular_dates) = 2
           /\ CountOf(summary.date_counts, summary.popular_dates[1])
                  < CountOf(summary.date_counts, summary.popular_dates[2])

\* C10: a successful add_application appends the new application at the end
\* of the session's list, points the user's UserIndex entry at this session,
\* returns the created record with total_applications = the new length, and
\* modifies no other session and no other user's entry.
C10_AppendOnSuccess ==
    [][\A m \in MsgIds, u \in UserIds, n \in UserNames, ds \in DateLists, info \in Infos :
          ( /\ add_application(m, u, n, ds, info, Written)
            /\ IsAdd(ret') /\ ret'.result.success )
          => LET app == ret'.result.application
             IN /\ app.user_id = u /\ app.user_name = n
                /\ app.requested_dates = ds /\ app.additional_info = info
                /\ app.applied_at.iso = now
                /\ Get(applications', m) =
                       [Get(applications, m) EXCEPT
                            !.applications = Get(applications, m).applications \o <<app>>]
                /\ ret'.result.total_applications = Len(ListOf(applications, m)) + 1
                /\ Has(user_applications', str(u))
                /\ Get(user_applications', str(u)) =
                       [message_id |-> m, applied_date |-> app.applied_at]
                /\ [i \in 1..Len(applications') |-> applications'[i].k] =
                       [i \in 1..Len(applications) |-> applications[i].k]
                /\ \A m2 \in Keys(applications) \ {m} :
                       Get(applications', m2) = Get(applications, m2)
                /\ \A u2 \in Keys(user_applications) \ {str(u)} :
                       /\ Has(user_applications', u2)
                       /\ Get(user_applications', u2) = Get(user_applications, u2)]_vars

\* C10 witness: an application was accepted as the second of its session
\* while another session also holds an application.
C10_SecondApplicationAccepted ==
    /\ IsAdd(ret) /\ ret.result.success
    /\ ret.result.total_applications = 2
    /\ ListOf(applications, ret.args[1])[1] # ret.result.application
    /\ \E m2 \in Keys(applications) \ {ret.args[1]} : ListOf(applications, m2) # <<>>

\* C11: create_application_session never fails and replaces whatever is
\* stored under the id: afterwards the session has an empty application
\* list, status active, no closing timestamp, and its deadline is the
\* creation instant plus the offset; every other session is unchanged.
IsCreate(r) == r.op = "create_application_session"

C11_CreateOverwrites ==
    [][\A m \in MsgIds, c \in ChannelIds, d \in DeadlineDays :
         create_application_session(m, c, d, Written) =>
             /\ ret'.result = <<>>
             /\ Keys(applications') = Keys(applications) \cup {m}
             /\ ListOf(applications', m) = <<>>
             /\ StatusOf(applications', m) = "active"
             /\ Get(applications', m).closed_at = <<>>
             /\ Get(applications', m).created_at = isoformat(now)
             /\ fromisoformat(Get(applications', m).deadline) = now + d * HoursPerDay
             /\ \A k \in Keys(applications) \ {m} :
                    Get(applications', k) = Get(applications, k)]_vars

\* a session that held an application (the user index still points at it)
\* has just been created again and is empty
C11_FilledSessionReplaced ==
    /\ IsCreate(ret)
    /\ Has(applications, ret.args[1])
    /\ ListOf(applications, ret.args[1]) = <<>>
    /\ \E i \in 1..Len(user_applications) :
          user_applications[i].v.message_id = ret.args[1]

\* C12: cleanup_old_sessions(days) deletes exactly the sessions created
\* before now - days, and exactly the user index entries that point at a
\* deleted session; every other session and entry is left as it was.
IsCleanup(r) == r.op = "cleanup_old_sessions"

C12_CleanupExact ==
    [][\A days \in RetentionDays :
         cleanup_old_sessions(days, Written) =>
             LET old == {m \in Keys(applications) :
                            fromisoformat(Get(applications, m).created_at)
                                < now - days * HoursPerDay}
                 gone == {u \in Keys(user_applications) :
                             Get(user_applications, u).message_id \in old}
             IN /\ Keys(applications') = Keys(applications) \ old
                /\ \A m \in Keys(applications') :
                       Get(applications', m) = Get(applications, m)
                /\ Keys(user_applications') = Keys(user_applications) \ gone
                /\ \A u \in Keys(user_applications') :
                       Get(user_applications', u) = Get(user_applications, u)]_vars

\* a cleanup removed a session and kept a recent one that holds the
\* application the user index points at
C12_OldRemovedRecentKept ==
    /\ IsCleanup(ret)
    /\ ret.logged # <<>>
    /\ \E i \in 1..Len(user_applications) :
          /\ Has(applications, user_applications[i].v.message_id)
          /\ ListOf(applications, user_applications[i].v.message_id) # <<>>

\* C13 (as stated): cleanup_old_sessions returns the number of sessions it
\* removed, 0 when none was old enough.
Removed == Len(applications) - Len(applications')

C13_ReturnsCount ==
    [][\A days \in RetentionDays :
         cleanup_old_sessions(days, Written) => ret'.result = <<Removed>>]_vars

\* C13 (amended): cleanup_old_sessions returns nothing; the number of
\* sessions it removed is written to the log only, and only when at least
\* one session was removed.
C13_CountOnlyLogged ==
    [][\A days \in RetentionDays :
         cleanup_old_sessions(days, Written) =>
             /\ ret'.result = <<>>
             /\ ret'.logged = IF Removed > 0 THEN <<Removed>> ELSE <<>>]_vars

\* a cleanup removed two sessions, logged the count and returned nothing
C13_TwoRemovedNoneReturned ==
    /\ IsCleanup(ret)
    /\ ret.logged = <<2>>
    /\ ret.result = <<>>

\* C14: a registry started on the file that the running one has written
\* gives the same get_active_sessions() result, whatever state the create,
\* add, close and cleanup calls have produced.
IsStart(r) == r.op = "__init__"

C14_RoundTrip ==
    [][IsStart(ret') =>
         get_active_sessions(applications') = get_active_sessions(applications)]_vars

\* a registry just read from the file: an active session with an
\* application in it, and a closed session
C14_ReloadedActiveAndClosed ==
    /\ IsStart(ret)
    /\ \E m \in ActiveIds(applications) : ListOf(applications, m) # <<>>
    /\ \E m \in Keys(applications) : StatusOf(applications, m) = "closed"

\* C15: as long as every write of the file succeeds, the file read back
\* equals the two maps in memory after every call: after a create, an
\* accepted add, a close and a cleanup, and after a rejected call too.
C15_FileEqualsMemory ==
    load_data(disk) = Document(applications, user_applications)

\* a cleanup has removed a session no user entry pointed at, another
\* session is left, and the file holds what memory holds
C15_CleanupWritten ==
    /\ IsCleanup(ret)
    /\ ret.logged # <<>>
    /\ applications # <<>>
    /\ Len(user_applications) = 1
    /\ Has(applications, user_applications[1].v.message_id)
    /\ load_data(disk) = Document(applications, user_applications)

\* C16: when the write of the file fails in an add_application call that
\* was not rejected, the call does not report success to its caller, and a
\* registry started on the file finds the state from before the call.
FailedWrites == {Refused, Torn}

C16_FailedWriteNotCommitted ==
    [][\A m \in MsgIds, u \in LifecycleUsers, n \in UserNames,
          ds \in LifecycleDates, info \in Infos, write \in FailedWrites :
          ( /\ add_application(m, u, n, ds, info, write)
            /\ applications' # applications
            /\ load_data(disk) = Document(applications, user_applications) )
          => /\ ~ret'.result.success
             /\ load_data(disk') = Document(applications, user_applications)]_vars

\* C17: every id in schedule_message_ids has a session in the registry, so
\* that the first reply to an announcement is accepted.
C17_AnnouncementHasSession ==
    \A id \in schedule_message_ids : Has(applications, str(id))

\* C18: a reply that add_application rejected is never answered with the
\* confirmation that the application is completed.
C18_RejectedNotConfirmed ==
    (IsAdd(ret) /\ ~ret.result.success) => reply # <<Completed>>

\* ---- notation for the notifier's runs -----------------------------------
\* (under SpecNotifier the registry stays as the run found it)
IsWake(run, hours) == run # <<>> /\ run.by = reminder_task(hours)
Started(run) == {run.started[i] : i \in 1..Len(run.started)}
DeadlineOf(m) == fromisoformat(Get(applications, m).deadline)
Leads == {deadline_reminder_hours[i] : i \in 1..Len(deadline_reminder_hours)}

\* C19 (as stated): a wake of the watch with lead L reminds exactly the
\* active sessions whose deadline d has now <= d < now + L, each once.
C19_ReminderWindow ==
    \A L \in Leads :
        IsWake(sent, L) =>
            /\ Started(sent) = {m \in ActiveIds(applications) :
                                  /\ DeadlineOf(m) >= sent.at
                                  /\ DeadlineOf(m) < sent.at + L}
            /\ Len(sent.started) = Cardinality(Started(sent))

\* C19 (amended): a wake of the watch with lead L starts a reminder for
\* exactly the active sessions whose deadline d has now < d <= now + L,
\* each once; nothing is started for a closed session, for a deadline that
\* is reached or passed, or for d > now + L; a reminder is posted to the
\* channel only for a session for which one was started.
C19_ReminderWindowUpToLead ==
    \A L \in Leads :
        IsWake(sent, L) =>
            /\ Started(sent) = {m \in ActiveIds(applications) :
                                  /\ DeadlineOf(m) > sent.at
                                  /\ DeadlineOf(m) <= sent.at + L}
            /\ Len(sent.started) = Cardinality(Started(sent))
            /\ \A i \in 1..Len(sent.posts) : sent.posts[i] \in Started(sent)

\* a wake reminded a session whose deadline is exactly the lead away and
\* left out an active session whose deadline is the present hour
C19_RemindedAtLeadNotAtDeadline ==
    \E L \in Leads :
        /\ IsWake(sent, L)
        /\ \E m \in Started(sent) : DeadlineOf(m) = sent.at + L
        /\ \E m \in ActiveIds(applications) \ Started(sent) : DeadlineOf(m) = sent.at

\* C20: in every reminder, report and alert, each administrator of
\* admin_ids is tried, in order, whatever happened to the DMs before
\* theirs; and every watch is still running afterwards.
DmsAbout(run, about) == SelectSeq(run.dms, LAMBDA d : d.about = about)

C20_EveryAdminTried ==
    sent # <<>> =>
        /\ \A i \in 1..Len(sent.dms) :
               LET dms == DmsAbout(sent, sent.dms[i].about)
               IN [j \in 1..Len(dms) |-> dms[j].admin] = admin_ids
        /\ \A name \in TaskNames : notification_tasks[name] = "sleeping"

\* a DM failed or found no user, and the next administrator got theirs
C20_SentAfterFailure ==
    /\ sent # <<>>
    /\ \E i \in 1..Len(sent.dms) :
          /\ i < Len(sent.dms)
          /\ sent.dms[i].result # "sent"
          /\ sent.dms[i + 1].result = "sent"
          /\ sent.dms[i + 1].about = sent.dms[i].about

\* ---- C21: closing the bot cancels every watch ------------------------------
\* C21: once ScheduledBot.close has run (the posting scheduler is stopped),
\* every watch started by setup_notifications is cancelled.
C21_CloseCancelsWatches ==
    ~scheduler.running =>
        \A name \in TaskNames : notification_tasks[name] = "cancelled"

\* ---- C22: a report watch sleeps until a later time ------------------------
ReportTasks == {"daily_report", "weekly_report"}

\* C22: whenever the daily or the weekly watch has computed its next report
\* time and sleeps until it, that time is later than the time at which it
\* was computed.
C22_NextReportLater ==
    \A name \in ReportTasks :
        wake[name].then = "report" => wake[name].until > wake[name].since

\* ---- C23: reminders are not de-duplicated ---------------------------------
\* the watch has just completed a check: its sleep in the try begins now
Checked(name) ==
    /\ wake'[name] # wake[name]
    /\ ~wake'[name].handler

InWindow(m, lead) ==
    /\ StatusOf(applications, m) = "active"
    /\ DeadlineOf(m) > now
    /\ DeadlineOf(m) <= now + lead

Note(admin, m, lead, t) ==
    [to |-> admin, about |-> m, by |-> reminder_task(lead), at |-> t]

\* C23: whatever reminders have been delivered before, in this hour or in
\* an earlier one, by this watch or by another, a check of the watch with
\* lead time L reminds every administrator of every active session whose
\* deadline is within L hours, and of no other session.
C23_NoDeduplication ==
    [][\A lead \in Leads :
          Checked(reminder_task(lead)) =>
              \A m \in Keys(applications), admin \in Admins :
                  Note(admin, m, lead, now) \in inbox' <=> InWindow(m, lead)]_vars

\* every lead-time watch has reminded the same administrator of the same
\* session in one hour, and the 24h watch had done so the hour before
C23_FourRemindersInOneHour ==
    \E m \in Keys(applications), admin \in Admins :
        /\ \A lead \in Leads : Note(admin, m, lead, now) \in inbox
        /\ Note(admin, m, 24, now - 1) \in inbox

\* ---- C24: the send log of a posting run ------------------------------------
IsPosting(run) == run # <<>> /\ run.by \in {job_id(c) : c \in ChannelIds}
LastLog == settings.send_logs[Len(settings.send_logs)]

\* C24: after a run of a monthly job, a last log entry 'success' means that
\* the last attempt delivered the message, and a run whose first attempt did
\* not deliver has made a further attempt.
C24_SuccessMeansDelivered ==
    IsPosting(sent) =>
        /\ LastLog.status = "success" => sent.posts[Len(sent.posts)] = "sent"
        /\ sent.posts[1] # "sent" => Len(sent.posts) > 1

\* ---- C25: a watch ends only by cancellation --------------------------------
InHandler(name) ==
    /\ notification_tasks[name] = "sleeping"
    /\ wake[name].handler

\* the watch is in a sleep that began at the horizon or ends after it
KeptRunning(name) ==
    /\ notification_tasks[name] = "sleeping"
    /\ wake[name].then # "finished"
    /\ wake[name].until > Horizon \/ wake[name].since = Horizon

\* C25: a watch that sleeps in its exception handler, nothing cancelling it,
\* runs its loop again and again until the observed time is over.
C25_ErrorDoesNotStopWatch ==
    \A name \in TaskNames : InHandler(name) ~> KeptRunning(name)

\* the weekly watch has slept a day in its handler and now sleeps until
\* the next Monday, the daily watch and the 1h watch have met an exception
\* in the hour before and have run again
C25_WatchResumedAfterError ==
    /\ wake["weekly_report"].then = "report"
    /\ wake["weekly_report"].since = FaultyStart + 1
    /\ wake["daily_report"].then = "report"
    /\ wake["daily_report"].since = FaultyStart + 1
    /\ wake[reminder_task(1)].since = FaultyStart + 2
    /\ sent # <<>> /\ sent.by = reminder_task(1) /\ sent.at = FaultyStart + 2

\* ---- C26: the counters only grow ---------------------------------------------
Count(counter, key) == IF Has(counter, key) THEN Get(counter, key) ELSE 0
Counter(data, name) ==
    IF Has(data.popular_times, name) THEN Get(data.popular_times, name)
    ELSE EmptyDict
Total(buckets, key) ==
    IF Has(buckets, key) THEN Get(buckets, key).total_applications ELSE 0
WeekTotal(buckets, key) ==
    IF Has(buckets, key) THEN Get(buckets, key).applications ELSE 0
UsersOf(buckets, key) ==
    IF Has(buckets, key) THEN Get(buckets, key).unique_users.set ELSE {}

RECURSIVE SumTotal(_)
SumTotal(buckets) ==
    IF buckets = <<>> THEN 0
    ELSE Head(buckets).v.total_applications + SumTotal(Tail(buckets))

RECURSIVE SumWeeks(_)
SumWeeks(buckets) ==
    IF buckets = <<>> THEN 0
    ELSE Head(buckets).v.applications + SumWeeks(Tail(buckets))

IsRecording == recorded' = recorded + 1

\* what one call adds
RecordAddsOne(before, after, t, event) ==
    /\ Total(after.monthly_stats, month_key(t))
           = Total(before.monthly_stats, month_key(t)) + 1
    /\ Total(after.user_participation, str(event.user_id))
           = Total(before.user_participation, str(event.user_id)) + 1
    /\ Count(Counter(after, "hourly"), hour_key(t))
           = Count(Counter(before, "hourly"), hour_key(t)) + 1
    /\ Count(Counter(after, "daily"), day_key(t))
           = Count(Counter(before, "daily"), day_key(t)) + 1
    /\ Total(after.channel_performance, str(event.channel_id))
           = Total(before.channel_performance, str(event.channel_id)) + 1
    /\ WeekTotal(after.trends, week_key(t))
           = WeekTotal(before.trends, week_key(t)) + 1
    /\ event.user_id \in UsersOf(after.monthly_stats, month_key(t))
    /\ event.user_id \in UsersOf(after.channel_performance, str(event.channel_id))
    /\ event.user_id \in UsersOf(after.trends, week_key(t))

NoCounterDecreases(before, after) ==
    /\ \A key \in Keys(before.monthly_stats) :
           Total(after.monthly_stats, key) >= Total(before.monthly_stats, key)
    /\ \A key \in Keys(before.user_participation) :
           Total(after.user_participation, key)
               >= Total(before.user_participation, key)
    /\ \A key \in Keys(before.channel_performance) :
           Total(after.channel_performance, key)
               >= Total(before.channel_performance, key)
    /\ \A key \in Keys(before.trends) :
           WeekTotal(after.trends, key) >= WeekTotal(before.trends, key)
    /\ \A name \in Keys(before.popular_times) :
           \A key \in Keys(Counter(before, name)) :
               Count(Counter(after, name), key) >= Count(Counter(before, name), key)

SumsAgree(data) ==
    /\ SumTotal(data.user_participation) = SumTotal(data.monthly_stats)
    /\ SumTotal(data.user_participation) = SumWeeks(data.trends)

\* C26: a call of record_application adds one to the total of the current
\* month, of the user, of the hour, of the weekday, of the channel and of the
\* current week and puts the user into the sets of the month, the channel and
\* the week; no step lowers a counter; the totals of the users, of the
\* months and of the weeks have the same sum.
C26_CountersOnlyGrow ==
    [][/\ IsRecording =>
              RecordAddsOne(analytics.analytics_data, analytics'.analytics_data,
                            now, ret'.args[1])
       /\ NoCounterDecreases(analytics.analytics_data, analytics'.analytics_data)
       /\ SumsAgree(analytics'.analytics_data)]_vars

\* three calls: one user on 31 January and on 1 February, another on
\* 1 February, so two months and one week are counted; a cleanup was tried
C26_TwoMonthsOneWeek ==
    /\ recorded = 3
    /\ Keys(analytics.analytics_data.monthly_stats) = {"2024-01", "2024-02"}
    /\ Keys(analytics.analytics_data.trends) = {"2024-W05"}
    /\ WeekTotal(analytics.analytics_data.trends, "2024-W05") = 3
    /\ UsersOf(analytics.analytics_data.trends, "2024-W05") = {1, 2}
    /\ Total(analytics.analytics_data.user_participation, "1") = 2
    /\ ret.op = "cleanup_old_data"

\* ---- C27: the counters come back from the file ---------------------------------
\* C27: a new Analytics that loads the file has the counters that the one
\* that saved it has, the sets of users and of months included.
C27_FileRestoresCounters ==
    Analytics(analytics.file).analytics_data = analytics.analytics_data

\* ---- C28: only accepted replies are counted ------------------------------------
\* C28: the applications counted by analytics are as many as the
\* applications stored in the sessions: a rejected reply is not counted.
C28_OnlyAcceptedRecorded ==
    SumTotal(analytics.analytics_data.user_participation) = TotalApps(applications)

\* ---- C29: no entry of a user names a missing session ---------------------------
\* C29: the message_id of every entry of user_applications is a key of
\* applications.
C29_NoDanglingEntry ==
    \A i \in 1..Len(user_applications) :
        user_applications[i].v.message_id \in Keys(applications)

\* a cleanup has just removed a session with its user's entry: the session
\* is gone, the user has no entry, another session is still stored
C29_EntryRemovedWithSession ==
    /\ ret.op = "cleanup_old_sessions"
    /\ ret.logged = <<1>>
    /\ Len(applications) = 1
    /\ user_applications = EmptyDict
    /\ disk = json_dump(Document(applications, user_applications))

\* ---- C30: the jobs follow the configuration ------------------------------------
\* C30: the channels that have a monthly job are the channels of
\* settings.scheduled_channels, and the message of each job is the message
\* configured for its channel.
C30_JobsFollowConfig ==
    /\ {scheduler.jobs[i].v.channel_id : i \in 1..Len(scheduler.jobs)}
           = Configured(settings.scheduled_channels)
    /\ \A i \in 1..Len(scheduler.jobs) :
           \A j \in 1..Len(settings.scheduled_channels) :
               settings.scheduled_channels[j].channel_id
                       = scheduler.jobs[i].v.channel_id
                   => scheduler.jobs[i].v.message_template
                          = settings.scheduled_channels[j].message

====
